---- MODULE Spec2Model ----
(***************************************************************************)
(* Instruction decoder of the distaff VM (processor/decoder/decoder2), the  *)
(* program-block hash composition (programs/program2/flow.rs) and the      *)
(* mnemonic parsers of the assembler (programs/program2/assembly).         *)
(*                                                                         *)
(* A panic of the Rust code is modelled by the variable err: the operation *)
(* stops at the failing assertion, the mutations made before it stay, and  *)
(* no further operation is applied to the decoder.                         *)
(***************************************************************************)
EXTENDS Naturals, Sequences, FiniteSets, TLC

\* ------------------------------------------------------------------------
\* Bounds of the model
\* ------------------------------------------------------------------------
\* size of the field the model computes in (stands for field::MODULUS)
Modulus == 7
\* the driver stops calling the decoder once the step counter reaches MaxStep
MaxStep == 48
\* largest number of control-flow operations the driver issues in one run
MaxCtlOps == 3

\* ------------------------------------------------------------------------
\* Constants of decoder2/mod.rs
\* ------------------------------------------------------------------------
BASE_CYCLE_LENGTH == 16
PUSH_OP_ALIGNMENT == 8
SPONGE_WIDTH == 4
NUM_CF_OP_BITS == 3
NUM_LD_OP_BITS == 5
NUM_HD_OP_BITS == 2
MAX_CONTEXT_DEPTH == 16
MAX_LOOP_DEPTH == 8

\* ------------------------------------------------------------------------
\* Opcode tags (processor/opcodes2).  FlowOps are numbered in declaration
\* order starting at Hacc = 0; Noop is the all-ones 7-bit tag.
\* ------------------------------------------------------------------------
Hacc == 0
Begin == 1
Tend == 2
Fend == 3
Loop == 4
Wrap == 5
Break == 6
Void == 7

Noop == 127
AssertOp == 16
Push == 41
Not == 72

FlowOps == {Hacc, Begin, Tend, Fend, Loop, Wrap, Break, Void}
UserOps == {Noop, AssertOp, Push, Not}

\* ------------------------------------------------------------------------
\* Evaluation order.  Bind(x, F) is F(x) with x evaluated once and in full, as
\* a call by value: every method below takes its arguments this way.
\* ------------------------------------------------------------------------
Bind(x, F(_)) == CHOOSE r \in {F(v) : v \in {y \in {x} : y = y}} : TRUE

\* ------------------------------------------------------------------------
\* Field and sponge primitives (math::field, utils::accumulator)
\* ------------------------------------------------------------------------
Field == 0 .. (Modulus - 1)
ZERO == 0
ONE == 1

add(a, b) == (a + b) % Modulus
mul(a, b) == (a * b) % Modulus

ALPHA == 3
INV_ALPHA == 5

RECURSIVE exp(_, _)
exp(b, p) == IF p = 0 THEN 1 % Modulus ELSE mul(b, exp(b, p - 1))

\* ARK[col][idx]: round constant of column col (0..7) in round idx (0..15)
ARK(col, idx) == ((idx + 1) * (col + 2) + col * col) % Modulus

\* MDS[i][j], i, j in 0..3
MDS(i, j) == (1 + ((i + 2 * j) % SPONGE_WIDTH) * (i + 1)) % Modulus

add_constants(state, idx, offset) ==
    Bind(state, LAMBDA s :
        [i \in 1 .. SPONGE_WIDTH |-> add(s[i], ARK(offset + i - 1, idx))])

apply_sbox(state) ==
    Bind(state, LAMBDA s : [i \in 1 .. SPONGE_WIDTH |-> exp(s[i], ALPHA)])

apply_inv_sbox(state) ==
    Bind(state, LAMBDA s : [i \in 1 .. SPONGE_WIDTH |-> exp(s[i], INV_ALPHA)])

apply_mds(state) ==
    Bind(state, LAMBDA s :
        [i \in 1 .. SPONGE_WIDTH |->
            add(add(mul(MDS(i - 1, 0), s[1]), mul(MDS(i - 1, 1), s[2])),
                add(mul(MDS(i - 1, 2), s[3]), mul(MDS(i - 1, 3), s[4])))])

\* The modified Rescue round of apply_hacc_round, on a bare 4-element state:
\* first half, injection of op_code and op_value, second half.
hacc_round(state, op_code, op_value, ark_idx) ==
    Bind(apply_mds(apply_sbox(add_constants(state, ark_idx, 0))), LAMBDA h :
        apply_mds(apply_inv_sbox(add_constants(
            [h EXCEPT ![1] = add(h[1], op_code % Modulus),
                      ![2] = add(h[2], op_value % Modulus)],
            ark_idx, SPONGE_WIDTH))))

\* Span::hash: one round per opcode, op_value zero, starting from state
RECURSIVE absorb(_, _, _)
absorb(state, instructions, i) ==
    IF i > Len(instructions) THEN state
    ELSE Bind(hacc_round(state, instructions[i], 0, (i - 1) % BASE_CYCLE_LENGTH),
              LAMBDA s : absorb(s, instructions, i + 1))

Span_hash(instructions, state) == absorb(state, instructions, 1)

Noops(n) == [i \in 1 .. n |-> Noop]

\* hash_seq of a block list that is one Span of n Noops
NoopsHash(n) == Span_hash(Noops(n), <<0, 0, 0, 0>>)[1]

\* ------------------------------------------------------------------------
\* Register traces: a register is a sequence, row r is element r + 1.
\* ------------------------------------------------------------------------
Row(register, r) == register[r + 1]

SetRow(register, r, v) == [register EXCEPT ![r + 1] = v]

\* Vec::resize(new_len, value)
resize(register, new_len, value) ==
    Bind(register, LAMBDA reg :
        [i \in 1 .. new_len |-> IF i <= Len(reg) THEN reg[i] ELSE value])

NewRegister(len) == [i \in 1 .. len |-> ZERO]

\* bit i of an 8-bit tag: ((tag >> i) & 1)
Bit(tag, i) == (tag \div (2 ^ i)) % 2

\* ------------------------------------------------------------------------
\* State of the decoder (struct Decoder) and of the driver that calls it
\* ------------------------------------------------------------------------
VARIABLES
    step,           \* Decoder.step
    op_acc,         \* Decoder.op_acc: 4 registers
    sponge,         \* Decoder.sponge: 4 field elements
    cf_op_bits,     \* Decoder.cf_op_bits: 3 registers
    ld_op_bits,     \* Decoder.ld_op_bits: 5 registers
    hd_op_bits,     \* Decoder.hd_op_bits: 2 registers
    ctx_stack,      \* Decoder.ctx_stack: a growing list of registers
    ctx_depth,      \* Decoder.ctx_depth
    loop_stack,     \* Decoder.loop_stack: a growing list of registers
    loop_depth,     \* Decoder.loop_depth
    err,            \* "none", or the assertion that stopped the last operation
    call,           \* the last external operation called and its arguments
    pre,            \* step, sponge and depths as they were before that call
    frames,         \* driver: sponge[0] at the entry of each block still open
    images,         \* driver: loop image of each loop not yet broken
    used,           \* driver: operations issued so far, by kind
    walk,           \* driver: the program being walked, when there is one
    asm_program,    \* assembler: the opcodes emitted so far (Vec<Opcode>)
    asm_hints,      \* assembler: HintMap, program index -> OpHint
    parsed,         \* assembler: the last token parsed and what came of it
    built           \* the block last constructed, its lists and its hash

vars == <<step, op_acc, sponge, cf_op_bits, ld_op_bits, hd_op_bits, ctx_stack,
          ctx_depth, loop_stack, loop_depth, err, call, pre, frames, images, used,
          walk, asm_program, asm_hints, parsed, built>>

assemblerVars == <<asm_program, asm_hints, parsed>>

driverVars == <<err, call, pre, frames, images, used, walk>>

decoderVars == <<step, op_acc, sponge, cf_op_bits, ld_op_bits, hd_op_bits,
                 ctx_stack, ctx_depth, loop_stack, loop_depth>>

\* The decoder as one value, threaded through the helper methods below.
Decoder ==
    [step |-> step, op_acc |-> op_acc, sponge |-> sponge,
     cf_op_bits |-> cf_op_bits, ld_op_bits |-> ld_op_bits,
     hd_op_bits |-> hd_op_bits, ctx_stack |-> ctx_stack,
     ctx_depth |-> ctx_depth, loop_stack |-> loop_stack,
     loop_depth |-> loop_depth, err |-> err, ret |-> 0]

\* Decoder::new with an empty context stack
new_without_context(init_trace_length) ==
    [step |-> 0,
     op_acc |-> [i \in 1 .. SPONGE_WIDTH |-> NewRegister(init_trace_length)],
     sponge |-> [i \in 1 .. SPONGE_WIDTH |-> ZERO],
     cf_op_bits |-> [i \in 1 .. NUM_CF_OP_BITS |-> NewRegister(init_trace_length)],
     ld_op_bits |-> [i \in 1 .. NUM_LD_OP_BITS |-> NewRegister(init_trace_length)],
     hd_op_bits |-> [i \in 1 .. NUM_HD_OP_BITS |-> NewRegister(init_trace_length)],
     ctx_stack |-> <<>>,
     ctx_depth |-> 0,
     loop_stack |-> <<>>,
     loop_depth |-> 0,
     err |-> "none", ret |-> 0]

\* Decoder::new(init_trace_length)
new(init_trace_length) ==
    [step |-> 0,
     op_acc |-> [i \in 1 .. SPONGE_WIDTH |-> NewRegister(init_trace_length)],
     sponge |-> [i \in 1 .. SPONGE_WIDTH |-> ZERO],
     cf_op_bits |-> [i \in 1 .. NUM_CF_OP_BITS |-> NewRegister(init_trace_length)],
     ld_op_bits |-> [i \in 1 .. NUM_LD_OP_BITS |-> NewRegister(init_trace_length)],
     hd_op_bits |-> [i \in 1 .. NUM_HD_OP_BITS |-> NewRegister(init_trace_length)],
     ctx_stack |-> <<NewRegister(init_trace_length)>>,
     ctx_depth |-> 1,
     loop_stack |-> <<>>,
     loop_depth |-> 0,
     err |-> "none", ret |-> 0]

\* Decoder::trace_length
trace_length(d) == Len(d.op_acc[1])

\* Decoder::max_ctx_stack_depth
max_ctx_stack_depth(d) == Len(d.ctx_stack)

\* Decoder::max_loop_stack_depth
max_loop_stack_depth(d) == Len(d.loop_stack)

\* assert!(cond, ...): the first failed assertion stops the operation
assert(d, cond, kind) ==
    IF d.err = "none" /\ ~cond THEN [d EXCEPT !.err = kind] ELSE d

\* a method body runs only while no assertion has failed
Run(dd, Body(_)) == Bind(dd, LAMBDA d : IF d.err # "none" THEN d ELSE Body(d))

ResizeAll(registers, new_len) ==
    [i \in 1 .. Len(registers) |-> resize(registers[i], new_len, ZERO)]

\* advance_step growing the registers by one row instead of doubling them
advance_step_one_row(dd) ==
    Run(dd, LAMBDA d :
        IF d.step + 1 >= trace_length(d)
        THEN [d EXCEPT !.step = @ + 1,
                       !.op_acc = ResizeAll(@, trace_length(d) + 1),
                       !.cf_op_bits = ResizeAll(@, trace_length(d) + 1),
                       !.ld_op_bits = ResizeAll(@, trace_length(d) + 1),
                       !.hd_op_bits = ResizeAll(@, trace_length(d) + 1),
                       !.ctx_stack = ResizeAll(@, trace_length(d) + 1),
                       !.loop_stack = ResizeAll(@, trace_length(d) + 1)]
        ELSE [d EXCEPT !.step = @ + 1])

\* Decoder::advance_step
advance_step(dd) ==
    Run(dd, LAMBDA d :
        IF d.step + 1 >= trace_length(d)
        THEN [d EXCEPT !.step = @ + 1,
                       !.op_acc = ResizeAll(@, trace_length(d) * 2),
                       !.cf_op_bits = ResizeAll(@, trace_length(d) * 2),
                       !.ld_op_bits = ResizeAll(@, trace_length(d) * 2),
                       !.hd_op_bits = ResizeAll(@, trace_length(d) * 2),
                       !.ctx_stack = ResizeAll(@, trace_length(d) * 2),
                       !.loop_stack = ResizeAll(@, trace_length(d) * 2)]
        ELSE [d EXCEPT !.step = @ + 1])

\* set_op_bits writing the row of the step counter after the advance
set_op_bits_at_step(dd, flow_op, user_op) ==
    Run(dd, LAMBDA d :
        [d EXCEPT
           !.cf_op_bits = [i \in 1 .. NUM_CF_OP_BITS |->
                              SetRow(@[i], d.step, Bit(flow_op, i - 1))],
           !.ld_op_bits = [i \in 1 .. NUM_LD_OP_BITS |->
                              SetRow(@[i], d.step, Bit(user_op, i - 1))],
           !.hd_op_bits = [i \in 1 .. NUM_HD_OP_BITS |->
                              SetRow(@[i], d.step,
                                     Bit(user_op, i - 1 + NUM_LD_OP_BITS))]])

\* Decoder::set_op_bits: the bits go to row step - 1
set_op_bits(dd, flow_op, user_op) ==
    Run(dd, LAMBDA d :
        [d EXCEPT
           !.cf_op_bits = [i \in 1 .. NUM_CF_OP_BITS |->
                              SetRow(@[i], d.step - 1, Bit(flow_op, i - 1))],
           !.ld_op_bits = [i \in 1 .. NUM_LD_OP_BITS |->
                              SetRow(@[i], d.step - 1, Bit(user_op, i - 1))],
           !.hd_op_bits = [i \in 1 .. NUM_HD_OP_BITS |->
                              SetRow(@[i], d.step - 1,
                                     Bit(user_op, i - 1 + NUM_LD_OP_BITS))]])

\* shift of a stack one register to the right, written at row s from row s - 1;
\* register 0 gets top
ShiftRight(stack, s, top) ==
    [i \in 1 .. Len(stack) |->
        IF i = 1 THEN SetRow(stack[1], s, top)
        ELSE SetRow(stack[i], s, Row(stack[i - 1], s - 1))]

\* shift of a stack one register to the left, written at row s from row s - 1;
\* the last register's row s is not written
ShiftLeft(stack, s) ==
    [i \in 1 .. Len(stack) |->
        IF i < Len(stack) THEN SetRow(stack[i], s, Row(stack[i + 1], s - 1))
        ELSE stack[i]]

\* copy of every register of a stack from row s - 1 to row s
CopyForward(stack, s) ==
    [i \in 1 .. Len(stack) |-> SetRow(stack[i], s, Row(stack[i], s - 1))]

\* a stack with one more register when depth exceeds the registers allocated
Grown(stack, depth, len) ==
    IF depth > Len(stack) THEN Append(stack, NewRegister(len)) ELSE stack

\* save_context without the bound on the depth
save_context_unbounded(dd) ==
    Run(Run(dd, LAMBDA d0 : [d0 EXCEPT !.ctx_depth = @ + 1]),
        LAMBDA d :
            [d EXCEPT !.ctx_stack =
                ShiftRight(Grown(@, d.ctx_depth, trace_length(d)),
                           d.step, d.sponge[1])])

\* save_context writing the top register only: older entries stay in place
save_context_top_only(dd) ==
    Run(Run(dd, LAMBDA d0 :
            assert([d0 EXCEPT !.ctx_depth = @ + 1],
                   d0.ctx_depth + 1 <= MAX_CONTEXT_DEPTH, "ctx_overflow")),
        LAMBDA d :
            [d EXCEPT !.ctx_stack =
                [CopyForward(Grown(@, d.ctx_depth, trace_length(d)), d.step)
                    EXCEPT ![1] = SetRow(@, d.step, d.sponge[1])]])

\* Decoder::save_context
save_context(dd) ==
    Run(Run(dd, LAMBDA d0 :
            assert([d0 EXCEPT !.ctx_depth = @ + 1],
                   d0.ctx_depth + 1 <= MAX_CONTEXT_DEPTH, "ctx_overflow")),
        LAMBDA d :
            [d EXCEPT !.ctx_stack =
                ShiftRight(Grown(@, d.ctx_depth, trace_length(d)),
                           d.step, d.sponge[1])])

\* pop_context reading the top register after the shift
pop_context_after_shift(dd) ==
    Run(Run(dd, LAMBDA d0 : assert(d0, d0.ctx_depth > 0, "ctx_underflow")),
        LAMBDA d :
        Bind(ShiftLeft(d.ctx_stack, d.step), LAMBDA shifted :
            [d EXCEPT !.ctx_stack = shifted,
                      !.ctx_depth = @ - 1,
                      !.ret = Row(shifted[1], d.step)]))

\* Decoder::pop_context; the popped value is left in ret
pop_context(dd) ==
    Run(Run(dd, LAMBDA d0 : assert(d0, d0.ctx_depth > 0, "ctx_underflow")),
        LAMBDA d :
        Bind(ShiftLeft(d.ctx_stack, d.step), LAMBDA shifted :
            [d EXCEPT !.ctx_stack = shifted,
                      !.ctx_depth = @ - 1,
                      !.ret = Row(shifted[1], d.step - 1)]))

\* Decoder::copy_context_stack
copy_context_stack(dd) ==
    Run(dd, LAMBDA d : [d EXCEPT !.ctx_stack = CopyForward(@, d.step)])

\* Decoder::save_loop_image
save_loop_image(dd, loop_image) ==
    Run(Run(dd, LAMBDA d0 :
            assert([d0 EXCEPT !.loop_depth = @ + 1],
                   d0.loop_depth + 1 <= MAX_LOOP_DEPTH, "loop_overflow")),
        LAMBDA d :
            [d EXCEPT !.loop_stack =
                ShiftRight(Grown(@, d.loop_depth, trace_length(d)),
                           d.step, loop_image)])

\* peek_loop_image testing the registers allocated instead of the depth
peek_loop_image_by_registers(dd) ==
    Run(Run(dd, LAMBDA d0 :
            assert(d0, max_loop_stack_depth(d0) > 0, "loop_underflow")),
        LAMBDA d :
        Bind(CopyForward(d.loop_stack, d.step), LAMBDA copied :
            [d EXCEPT !.loop_stack = copied,
                      !.ret = Row(copied[1], d.step)]))

\* peek_loop_image reading the last register, the outermost image
peek_loop_image_outermost(dd) ==
    Run(Run(dd, LAMBDA d0 : assert(d0, d0.loop_depth > 0, "loop_underflow")),
        LAMBDA d :
        Bind(CopyForward(d.loop_stack, d.step), LAMBDA copied :
            [d EXCEPT !.loop_stack = copied,
                      !.ret = Row(copied[d.loop_depth], d.step)]))

\* Decoder::peek_loop_image; the top value is left in ret
peek_loop_image(dd) ==
    Run(Run(dd, LAMBDA d0 : assert(d0, d0.loop_depth > 0, "loop_underflow")),
        LAMBDA d :
        Bind(CopyForward(d.loop_stack, d.step), LAMBDA copied :
            [d EXCEPT !.loop_stack = copied,
                      !.ret = Row(copied[1], d.step)]))

\* pop_loop_image lowering the depth and leaving every image in its register
pop_loop_image_in_place(dd) ==
    Run(Run(dd, LAMBDA d0 : assert(d0, d0.loop_depth > 0, "loop_underflow")),
        LAMBDA d :
        Bind(CopyForward(d.loop_stack, d.step), LAMBDA copied :
            [d EXCEPT !.loop_stack = copied,
                      !.loop_depth = @ - 1,
                      !.ret = Row(copied[1], d.step - 1)]))

\* Decoder::pop_loop_image; the popped value is left in ret
pop_loop_image(dd) ==
    Run(Run(dd, LAMBDA d0 : assert(d0, d0.loop_depth > 0, "loop_underflow")),
        LAMBDA d :
        Bind(ShiftLeft(d.loop_stack, d.step), LAMBDA shifted :
            [d EXCEPT !.loop_stack = shifted,
                      !.loop_depth = @ - 1,
                      !.ret = Row(shifted[1], d.step - 1)]))

\* Decoder::copy_loop_stack
copy_loop_stack(dd) ==
    Run(dd, LAMBDA d : [d EXCEPT !.loop_stack = CopyForward(@, d.step)])

\* Decoder::set_sponge
set_sponge(dd, state) ==
    Run(dd, LAMBDA d :
        [d EXCEPT !.sponge = state,
                  !.op_acc = [i \in 1 .. SPONGE_WIDTH |->
                                 SetRow(@[i], d.step, state[i])]])

\* apply_hacc_round taking the round constants of the step just reached
apply_hacc_round_at_step(dd, op_code, op_value) ==
    Run(dd, LAMBDA d :
        Bind(hacc_round(d.sponge, op_code, op_value,
                        d.step % BASE_CYCLE_LENGTH),
             LAMBDA state :
                [d EXCEPT !.sponge = state,
                          !.op_acc = [i \in 1 .. SPONGE_WIDTH |->
                                         SetRow(@[i], d.step, state[i])]]))

\* Decoder::apply_hacc_round
apply_hacc_round(dd, op_code, op_value) ==
    Run(dd, LAMBDA d :
        Bind(hacc_round(d.sponge, op_code, op_value,
                        (d.step - 1) % BASE_CYCLE_LENGTH),
             LAMBDA state :
                [d EXCEPT !.sponge = state,
                          !.op_acc = [i \in 1 .. SPONGE_WIDTH |->
                                         SetRow(@[i], d.step, state[i])]]))

\* fill_register keeping one row more than it is asked to
fill_register_late(register, from, value) ==
    resize(resize(register, from + 1, ZERO), Len(register), value)

\* fill_register(register, from, value)
fill_register(register, from, value) ==
    resize(resize(register, from, ZERO), Len(register), value)

\* ------------------------------------------------------------------------
\* External operations of the decoder
\* ------------------------------------------------------------------------
ZeroState == <<ZERO, ZERO, ZERO, ZERO>>

\* start_block without its alignment assertion
start_block_unaligned(dd) ==
    Bind(dd, LAMBDA d :
            set_sponge(
                set_op_bits(copy_loop_stack(save_context(advance_step(d))),
                            Begin, Noop),
                ZeroState))

\* start_block testing its alignment after the step was advanced
start_block_late_check(dd) ==
    Bind(advance_step(dd), LAMBDA d0 :
    Bind(assert(d0, (d0.step - 1) % BASE_CYCLE_LENGTH = BASE_CYCLE_LENGTH - 1,
                "alignment"),
         LAMBDA d :
            set_sponge(
                set_op_bits(copy_loop_stack(save_context(d)), Begin, Noop),
                ZeroState)))

\* Decoder::start_block
start_block(dd) ==
    Bind(assert(dd, dd.step % BASE_CYCLE_LENGTH = BASE_CYCLE_LENGTH - 1,
                "alignment"),
         LAMBDA d :
            set_sponge(
                set_op_bits(copy_loop_stack(save_context(advance_step(d))),
                            Begin, Noop),
                ZeroState))

\* end_block with the two branches exchanged
end_block_swapped(dd, sibling_hash, true_branch) ==
    Bind(assert(dd, dd.step % BASE_CYCLE_LENGTH = 0, "alignment"), LAMBDA d0 :
    Bind(pop_context(advance_step(d0)), LAMBDA d1 :
    Bind(copy_loop_stack(d1), LAMBDA d :
        IF true_branch
        THEN set_sponge(set_op_bits(d, Tend, Noop),
                        <<d1.ret, sibling_hash, d.sponge[1], 0>>)
        ELSE set_sponge(set_op_bits(d, Fend, Noop),
                        <<d1.ret, d.sponge[1], sibling_hash, 0>>))))

\* end_block installing the true-branch order on both branches
end_block_same_order(dd, sibling_hash, true_branch) ==
    Bind(assert(dd, dd.step % BASE_CYCLE_LENGTH = 0, "alignment"), LAMBDA d0 :
    Bind(pop_context(advance_step(d0)), LAMBDA d1 :
    Bind(copy_loop_stack(d1), LAMBDA d :
        set_sponge(set_op_bits(d, IF true_branch THEN Tend ELSE Fend, Noop),
                   <<d1.ret, d.sponge[1], sibling_hash, 0>>))))

\* Decoder::end_block
end_block(dd, sibling_hash, true_branch) ==
    Bind(assert(dd, dd.step % BASE_CYCLE_LENGTH = 0, "alignment"), LAMBDA d0 :
    Bind(pop_context(advance_step(d0)), LAMBDA d1 :
    Bind(copy_loop_stack(d1), LAMBDA d :
        IF true_branch
        THEN set_sponge(set_op_bits(d, Tend, Noop),
                        <<d1.ret, d.sponge[1], sibling_hash, 0>>)
        ELSE set_sponge(set_op_bits(d, Fend, Noop),
                        <<d1.ret, sibling_hash, d.sponge[1], 0>>))))

\* start_loop without its alignment assertion
start_loop_unaligned(dd, loop_image) ==
    Bind(dd, LAMBDA d :
            set_sponge(
                set_op_bits(
                    save_loop_image(save_context(advance_step(d)), loop_image),
                    Loop, Noop),
                ZeroState))

\* start_loop treating the loop stack as start_block does
start_loop_as_block(dd, loop_image) ==
    Bind(assert(dd, dd.step % BASE_CYCLE_LENGTH = BASE_CYCLE_LENGTH - 1,
                "alignment"),
         LAMBDA d :
            set_sponge(
                set_op_bits(copy_loop_stack(save_context(advance_step(d))),
                            Loop, Noop),
                ZeroState))

\* Decoder::start_loop
start_loop(dd, loop_image) ==
    Bind(assert(dd, dd.step % BASE_CYCLE_LENGTH = BASE_CYCLE_LENGTH - 1,
                "alignment"),
         LAMBDA d :
            set_sponge(
                set_op_bits(
                    save_loop_image(save_context(advance_step(d)), loop_image),
                    Loop, Noop),
                ZeroState))

\* wrap_loop recording a user operation next to Wrap
wrap_loop_with_user_op(dd) ==
    Bind(assert(dd, dd.step % BASE_CYCLE_LENGTH = BASE_CYCLE_LENGTH - 1,
                "alignment"),
         LAMBDA d0 :
    Bind(peek_loop_image(copy_context_stack(advance_step(d0))), LAMBDA d1 :
        set_sponge(
            set_op_bits(assert(d1, d1.sponge[1] = d1.ret, "loop_image"),
                        Wrap, AssertOp),
            ZeroState)))

\* Decoder::wrap_loop
wrap_loop(dd) ==
    Bind(assert(dd, dd.step % BASE_CYCLE_LENGTH = BASE_CYCLE_LENGTH - 1,
                "alignment"),
         LAMBDA d0 :
    Bind(peek_loop_image(copy_context_stack(advance_step(d0))), LAMBDA d1 :
        set_sponge(
            set_op_bits(assert(d1, d1.sponge[1] = d1.ret, "loop_image"),
                        Wrap, Noop),
            ZeroState)))

\* break_loop without its set_sponge call
break_loop_no_set_sponge(dd) ==
    Bind(assert(dd, dd.step % BASE_CYCLE_LENGTH = BASE_CYCLE_LENGTH - 1,
                "alignment"),
         LAMBDA d0 :
    Bind(pop_loop_image(copy_context_stack(advance_step(d0))), LAMBDA d1 :
        set_op_bits(assert(d1, d1.sponge[1] = d1.ret, "loop_image"),
                    Break, Noop)))

\* break_loop resetting the sponge as wrap_loop does
break_loop_reset_sponge(dd) ==
    Bind(assert(dd, dd.step % BASE_CYCLE_LENGTH = BASE_CYCLE_LENGTH - 1,
                "alignment"),
         LAMBDA d0 :
    Bind(pop_loop_image(copy_context_stack(advance_step(d0))), LAMBDA d1 :
        set_sponge(
            set_op_bits(assert(d1, d1.sponge[1] = d1.ret, "loop_image"),
                        Break, Noop),
            ZeroState)))

\* Decoder::break_loop
break_loop(dd) ==
    Bind(assert(dd, dd.step % BASE_CYCLE_LENGTH = BASE_CYCLE_LENGTH - 1,
                "alignment"),
         LAMBDA d0 :
    Bind(pop_loop_image(copy_context_stack(advance_step(d0))), LAMBDA d1 :
        set_sponge(
            set_op_bits(assert(d1, d1.sponge[1] = d1.ret, "loop_image"),
                        Break, Noop),
            d1.sponge)))

\* decode_op without the alignment assertion of a Push
decode_op_unaligned_push(dd, op_code, op_value) ==
    Bind(IF op_value # ZERO /\ op_code # Push
         THEN assert(dd, FALSE, "op_value")
         ELSE dd,
         LAMBDA d :
            apply_hacc_round(
                set_op_bits(copy_loop_stack(copy_context_stack(advance_step(d))),
                            Hacc, op_code),
                op_code, op_value))

\* Decoder::decode_op
decode_op(dd, op_code, op_value) ==
    Bind(IF op_value # ZERO
         THEN IF op_code = Push
              THEN assert(dd, dd.step % PUSH_OP_ALIGNMENT = 0, "push_alignment")
              ELSE assert(dd, FALSE, "op_value")
         ELSE dd,
         LAMBDA d :
            apply_hacc_round(
                set_op_bits(copy_loop_stack(copy_context_stack(advance_step(d))),
                            Hacc, op_code),
                op_code, op_value))

FillAll(registers, from, value) ==
    [i \in 1 .. Len(registers) |-> fill_register(registers[i], from, value)]

FillLast(registers, s) ==
    [i \in 1 .. Len(registers) |->
        fill_register(registers[i], s + 1, Row(registers[i], s))]

\* finalize_trace advancing the step counter as the other operations do
finalize_trace_advancing(dd) ==
    Bind(advance_step(dd), LAMBDA d :
        [d EXCEPT !.cf_op_bits = FillAll(@, d.step, ONE),
                  !.ld_op_bits = FillAll(@, d.step, ONE),
                  !.hd_op_bits = FillAll(@, d.step, ONE),
                  !.op_acc = FillLast(@, d.step),
                  !.ctx_stack = FillLast(@, d.step),
                  !.loop_stack = FillLast(@, d.step)])

\* finalize_trace clearing the sponge once the trace is filled
finalize_trace_clearing(dd) ==
    Bind(dd, LAMBDA d :
        [d EXCEPT !.cf_op_bits = FillAll(@, d.step, ONE),
                  !.ld_op_bits = FillAll(@, d.step, ONE),
                  !.hd_op_bits = FillAll(@, d.step, ONE),
                  !.op_acc = FillLast(@, d.step),
                  !.ctx_stack = FillLast(@, d.step),
                  !.loop_stack = FillLast(@, d.step),
                  !.sponge = ZeroState])

\* Decoder::finalize_trace
finalize_trace(dd) ==
    Bind(dd, LAMBDA d :
        [d EXCEPT !.cf_op_bits = FillAll(@, d.step, ONE),
                  !.ld_op_bits = FillAll(@, d.step, ONE),
                  !.hd_op_bits = FillAll(@, d.step, ONE),
                  !.op_acc = FillLast(@, d.step),
                  !.ctx_stack = FillLast(@, d.step),
                  !.loop_stack = FillLast(@, d.step)])

\* ------------------------------------------------------------------------
\* Program blocks (programs/program2/flow.rs).  A block is a record of one
\* shape for the four kinds; the fields a kind does not have are empty.  The
\* field ok is FALSE when the constructor of the block, or of a block inside
\* it, panics.  The field run is the driver's: the branch of a Switch that is
\* executed (1 the true branch, 0 the false branch), the number of iterations
\* of a Loop.
\* ------------------------------------------------------------------------
Block(kind, instructions, blocks, t_branch, f_branch, body, skip, ok) ==
    [kind |-> kind, instructions |-> instructions, blocks |-> blocks,
     t_branch |-> t_branch, f_branch |-> f_branch, body |-> body,
     skip |-> skip, ok |-> ok, run |-> 1]

\* Span::from_instructions
Span_from_instructions(instructions) ==
    Block("span", instructions, <<>>, <<>>, <<>>, <<>>, <<>>, TRUE)

\* Span::starts_with
Span_starts_with(block, instructions) ==
    /\ Len(block.instructions) >= Len(instructions)
    /\ \A i \in 1 .. Len(instructions) : block.instructions[i] = instructions[i]

\* ProgramBlock::is_span
is_span(block) == block.kind = "span"

\* validate_block_list: TRUE when no assertion of it fails.  was_span starts
\* true and is only ever set to false, so a Span is refused exactly when
\* every block between the first one and it is a Span.
validate_block_list(blocks, starts_with) ==
    /\ Len(blocks) > 0
    /\ is_span(blocks[1])
    /\ Len(starts_with) > 0 => Span_starts_with(blocks[1], starts_with)
    /\ \A i \in 2 .. Len(blocks) :
          is_span(blocks[i]) => \E j \in 2 .. (i - 1) : ~is_span(blocks[j])

\* every block of the list was constructed
Constructed(blocks) == \A i \in 1 .. Len(blocks) : blocks[i].ok

\* Group::new
Group_new(blocks) ==
    Block("group", <<>>, blocks, <<>>, <<>>, <<>>, <<>>,
          Constructed(blocks) /\ validate_block_list(blocks, <<>>))

\* Switch::new with the true-branch prefix required of both branches
Switch_new_one_prefix(true_branch, false_branch) ==
    Block("switch", <<>>, <<>>, true_branch, false_branch, <<>>, <<>>,
          /\ Constructed(true_branch) /\ Constructed(false_branch)
          /\ validate_block_list(true_branch, <<AssertOp>>)
          /\ validate_block_list(false_branch, <<AssertOp>>))

\* Switch::new
Switch_new(true_branch, false_branch) ==
    Block("switch", <<>>, <<>>, true_branch, false_branch, <<>>, <<>>,
          /\ Constructed(true_branch) /\ Constructed(false_branch)
          /\ validate_block_list(true_branch, <<AssertOp>>)
          /\ validate_block_list(false_branch, <<Not, AssertOp>>))

\* Loop::new: the skip block is Not, Assert and 13 Noops
Loop_new(body) ==
    Block("loop", <<>>, <<>>, <<>>, <<>>, body,
          <<Span_from_instructions(<<Not, AssertOp>> \o Noops(13))>>,
          Constructed(body) /\ validate_block_list(body, <<AssertOp>>))

\* hash_acc(h, v0, v1): the state the decoder installs at Tend
hash_acc(h, v0, v1) == <<h, v0, v1, ZERO>>

RECURSIVE hash_seq(_), hash_blocks(_, _, _)

\* Group::hash
Group_hash(block, state) == hash_acc(state[1], hash_seq(block.blocks), ZERO)

\* Switch::hash
Switch_hash(block, state) ==
    hash_acc(state[1], hash_seq(block.t_branch), hash_seq(block.f_branch))

\* Loop::hash with the two summaries exchanged
Loop_hash_skip_first(block, state) ==
    hash_acc(state[1], hash_seq(block.skip), hash_seq(block.body))

\* Loop::hash
Loop_hash(block, state) ==
    hash_acc(state[1], hash_seq(block.body), hash_seq(block.skip))

\* ProgramBlock::hash
ProgramBlock_hash(block, state) ==
    CASE block.kind = "span" -> Span_hash(block.instructions, state)
      [] block.kind = "group" -> Group_hash(block, state)
      [] block.kind = "switch" -> Switch_hash(block, state)
      [] block.kind = "loop" -> Loop_hash(block, state)

\* the fold of hash_seq: blocks i, i + 1, ... applied to state
hash_blocks(blocks, i, state) ==
    IF i > Len(blocks) THEN state
    ELSE Bind(ProgramBlock_hash(blocks[i], state),
              LAMBDA s : hash_blocks(blocks, i + 1, s))

\* hash_seq(blocks): element 0 of the fold from the zero state
hash_seq(blocks) == hash_blocks(blocks, 1, ZeroState)[1]

\* ------------------------------------------------------------------------
\* The driver: one action per external operation
\* ------------------------------------------------------------------------
\* init_trace_length values the decoder is created with
InitLengths == {1}
\* sibling hashes the driver supplies
Siblings == {2}
\* loop images the driver supplies: the hash of a body of 15 Noops, and another
BodyHash == NoopsHash(BASE_CYCLE_LENGTH - 1)
Images == {BodyHash, add(BodyHash, 1)}
\* values the driver passes to decode_op
OpValues == {0, 1}
\* opcodes the driver passes to decode_op, and the steps at which it passes
\* one other than Noop
DecodeOps == {Noop, Push}
UserSteps == {8}
\* steps at which it passes a Push with a value though step % 8 is not 0
UnalignedSteps == {9, 20}

Install(d) ==
    /\ step' = d.step
    /\ op_acc' = d.op_acc
    /\ sponge' = d.sponge
    /\ cf_op_bits' = d.cf_op_bits
    /\ ld_op_bits' = d.ld_op_bits
    /\ hd_op_bits' = d.hd_op_bits
    /\ ctx_stack' = d.ctx_stack
    /\ ctx_depth' = d.ctx_depth
    /\ loop_stack' = d.loop_stack
    /\ loop_depth' = d.loop_depth
    /\ err' = d.err

\* top of a driver stack; Modulus, which is no field element, when it is empty
Top(stack) == IF stack = <<>> THEN Modulus ELSE Head(stack)

Snapshot ==
    [step |-> step, sponge |-> sponge, ctx_depth |-> ctx_depth,
     loop_depth |-> loop_depth, frame |-> Top(frames), image |-> Top(images)]

\* the call is recorded with its arguments, or by its name alone when it was
\* refused at entry for its alignment
Called(op, a, b) ==
    /\ call' = IF err' = "alignment" THEN [op |-> op, a |-> 0, b |-> 0]
                ELSE [op |-> op, a |-> a, b |-> b]
    /\ pre' = Snapshot

\* the driver's counters after an operation of the given kind
Count(kind) == used' = [used EXCEPT ![kind] = @ + 1]

\* the driver may issue one more decoder operation: it stops at MaxStep, and
\* after finalize_trace
MayCall == step < MaxStep /\ used.fin = 0

Pop(stack) == IF stack = <<>> THEN stack ELSE Tail(stack)

\* the driver walks no program
NoWalk == [program |-> <<>>, todo |-> <<>>, open |-> <<>>, closed |-> <<>>]

\* the assembler has parsed nothing
NoToken == [name |-> "", params |-> <<>>]

NoAssembly ==
    /\ asm_program = <<>>
    /\ asm_hints = <<>>
    /\ parsed = [op |-> NoToken, step |-> 0, at |-> 0, before |-> <<>>,
                 hints |-> <<>>, result |-> "none", phase |-> 0]

\* nothing constructed yet
NoBuild ==
    [call |-> "none", a |-> <<>>, b |-> <<>>,
     block |-> Span_from_instructions(<<>>), hashed |-> FALSE,
     state |-> ZeroState, hash |-> ZeroState]

InitWith(lengths) ==
    /\ \E n \in lengths : \E d \in {new(n)} :
            /\ step = d.step
            /\ op_acc = d.op_acc
            /\ sponge = d.sponge
            /\ cf_op_bits = d.cf_op_bits
            /\ ld_op_bits = d.ld_op_bits
            /\ hd_op_bits = d.hd_op_bits
            /\ ctx_stack = d.ctx_stack
            /\ ctx_depth = d.ctx_depth
            /\ loop_stack = d.loop_stack
            /\ loop_depth = d.loop_depth
            /\ err = d.err
    /\ call = [op |-> "new", a |-> 0, b |-> 0]
    /\ pre = [step |-> 0, sponge |-> ZeroState, ctx_depth |-> 0, loop_depth |-> 0,
              frame |-> Modulus, image |-> Modulus]
    /\ frames = <<>>
    /\ images = <<>>
    /\ used = [ctl |-> 0, user |-> 0, fin |-> 0]
    /\ built = NoBuild

InitDecoder == InitWith(InitLengths)

Init == InitDecoder /\ walk = NoWalk /\ NoAssembly

StartBlock ==
    /\ err = "none"
    /\ \E d \in {start_block(Decoder)} :
        /\ Install(d)
        /\ Called("start_block", 0, 0)
        /\ frames' = IF d.err = "none" THEN <<sponge[1]>> \o frames ELSE frames
        /\ Count("ctl")
        /\ UNCHANGED images

EndBlock(siblings, branches) ==
    \E sibling_hash \in siblings, true_branch \in branches :
        /\ err = "none"
        /\ \E d \in {end_block(Decoder, sibling_hash, true_branch)} :
            /\ Install(d)
            /\ Called("end_block", sibling_hash, IF true_branch THEN 1 ELSE 0)
            /\ frames' = IF d.err = "none" THEN Pop(frames) ELSE frames
            /\ Count("ctl")
            /\ UNCHANGED images

StartLoop(loop_images) ==
    \E loop_image \in loop_images :
        /\ err = "none"
        /\ \E d \in {start_loop(Decoder, loop_image)} :
            /\ Install(d)
            /\ Called("start_loop", loop_image, 0)
            /\ frames' = IF d.err = "none" THEN <<sponge[1]>> \o frames ELSE frames
            /\ images' = IF d.err = "none" THEN <<loop_image>> \o images ELSE images
            /\ Count("ctl")

WrapLoop ==
    /\ err = "none"
    /\ \E d \in {wrap_loop(Decoder)} :
        /\ Install(d)
        /\ Called("wrap_loop", 0, 0)
        /\ Count("ctl")
        /\ UNCHANGED <<frames, images>>

BreakLoop ==
    /\ err = "none"
    /\ \E d \in {break_loop(Decoder)} :
        /\ Install(d)
        /\ Called("break_loop", 0, 0)
        /\ images' = IF d.err = "none" THEN Pop(images) ELSE images
        /\ Count("ctl")
        /\ UNCHANGED frames

DecodeOp(ops, values, steps) ==
    \E op_code \in ops, op_value \in values :
        /\ err = "none"
        /\ op_code # Noop => step \in steps
        /\ \E d \in {decode_op(Decoder, op_code, op_value)} :
            /\ Install(d)
            /\ Called("decode_op", op_code, op_value)
            /\ Count("user")
            /\ UNCHANGED <<frames, images>>

FinalizeTrace ==
    /\ err = "none"
    /\ \E d \in {finalize_trace(Decoder)} :
        /\ Install(d)
        /\ Called("finalize_trace", 0, 0)
        /\ Count("fin")
        /\ UNCHANGED <<frames, images>>

Next ==
    \/ MayCall /\ used.ctl < MaxCtlOps /\ StartBlock /\ UNCHANGED <<walk, assemblerVars, built>>
    \/ MayCall /\ used.ctl < MaxCtlOps /\ EndBlock(Siblings, BOOLEAN)
               /\ UNCHANGED <<walk, assemblerVars, built>>
    \/ MayCall /\ used.ctl < MaxCtlOps /\ StartLoop(Images) /\ UNCHANGED <<walk, assemblerVars, built>>
    \/ MayCall /\ used.ctl < MaxCtlOps /\ WrapLoop /\ UNCHANGED <<walk, assemblerVars, built>>
    \/ MayCall /\ used.ctl < MaxCtlOps /\ BreakLoop /\ UNCHANGED <<walk, assemblerVars, built>>
    \/ MayCall /\ DecodeOp(DecodeOps, OpValues, UserSteps) /\ UNCHANGED <<walk, assemblerVars, built>>
    \/ MayCall /\ DecodeOp({Push}, {1}, UnalignedSteps)
               /\ UNCHANGED <<walk, assemblerVars, built>>
    \/ used.fin = 0 /\ FinalizeTrace /\ UNCHANGED <<walk, assemblerVars, built>>

Spec == Init /\ [][Next]_vars

\* ------------------------------------------------------------------------
\* The driver that only decodes user operations: every opcode of OpsOpcodes,
\* with and without a value, at each step of OpsSteps, Noop elsewhere.
\* ------------------------------------------------------------------------
MaxOpsStep == 17
OpsOpcodes == {Noop, AssertOp, Push}
OpsSteps == {0, 1, 7, 8, 9, 16}

NextOps ==
    step < MaxOpsStep /\ DecodeOp(OpsOpcodes, OpValues, OpsSteps)
        /\ UNCHANGED <<walk, assemblerVars, built>>

SpecOps == Init /\ [][NextOps]_vars

\* ------------------------------------------------------------------------
\* The driver that opens blocks without closing any: Noops up to each aligned
\* step, loops while every block opened so far is a loop, then plain blocks.
\* It may call end_block once, as the very first operation.
\* ------------------------------------------------------------------------
MaxDeepStep == 256
DeepImages == {BodyHash}

NextDeep ==
    \/ step < MaxDeepStep /\ step % BASE_CYCLE_LENGTH # BASE_CYCLE_LENGTH - 1
            /\ DecodeOp({Noop}, {0}, {}) /\ UNCHANGED <<walk, assemblerVars, built>>
    \/ step < MaxDeepStep /\ step % BASE_CYCLE_LENGTH = BASE_CYCLE_LENGTH - 1
            /\ StartBlock /\ UNCHANGED <<walk, assemblerVars, built>>
    \/ step < MaxDeepStep /\ step % BASE_CYCLE_LENGTH = BASE_CYCLE_LENGTH - 1
            /\ loop_depth + 1 = ctx_depth
            /\ StartLoop(DeepImages) /\ UNCHANGED <<walk, assemblerVars, built>>
    \/ step = 0 /\ EndBlock(Siblings, BOOLEAN) /\ UNCHANGED <<walk, assemblerVars, built>>

SpecDeep == Init /\ [][NextDeep]_vars

\* ------------------------------------------------------------------------
\* The driver that creates the decoder with each length of LenInitLengths,
\* decodes Noops, opens blocks and loops, and finalizes the trace at any step.
\* ------------------------------------------------------------------------
MaxLenStep == 33
LenInitLengths == {1, 2, 3, 4}

InitLen == InitWith(LenInitLengths) /\ walk = NoWalk /\ NoAssembly

NextLen ==
    \/ step < MaxLenStep /\ used.fin = 0 /\ DecodeOp({Noop}, {0}, {})
            /\ UNCHANGED <<walk, assemblerVars, built>>
    \/ step < MaxLenStep /\ used.fin = 0 /\ StartBlock /\ UNCHANGED <<walk, assemblerVars, built>>
    \/ step < MaxLenStep /\ used.fin = 0 /\ StartLoop(DeepImages)
            /\ UNCHANGED <<walk, assemblerVars, built>>
    \/ used.fin = 0 /\ FinalizeTrace /\ UNCHANGED <<walk, assemblerVars, built>>

SpecLen == InitLen /\ [][NextLen]_vars

\* ------------------------------------------------------------------------
\* The driver that keeps calling the decoder after finalize_trace: the six
\* operations are public methods taking &mut self and stay callable.
\* ------------------------------------------------------------------------
MaxPostStep == 34

\* finalize_trace is called at most this many times
MaxFinalize == 2

MayCallPost == step < MaxPostStep /\ used.ctl < MaxCtlOps

NextPost ==
    \/ MayCallPost /\ StartBlock /\ UNCHANGED <<walk, assemblerVars, built>>
    \/ MayCallPost /\ EndBlock(Siblings, BOOLEAN) /\ UNCHANGED <<walk, assemblerVars, built>>
    \/ MayCallPost /\ StartLoop(DeepImages) /\ UNCHANGED <<walk, assemblerVars, built>>
    \/ MayCallPost /\ WrapLoop /\ UNCHANGED <<walk, assemblerVars, built>>
    \/ MayCallPost /\ BreakLoop /\ UNCHANGED <<walk, assemblerVars, built>>
    \/ step < MaxPostStep /\ DecodeOp({Noop}, {0}, {}) /\ UNCHANGED <<walk, assemblerVars, built>>
    \/ used.fin < MaxFinalize /\ FinalizeTrace /\ UNCHANGED <<walk, assemblerVars, built>>

SpecPost == Init /\ [][NextPost]_vars

\* ------------------------------------------------------------------------
\* The driver that walks a program: start_block or start_loop on entering a
\* block, one decode_op with op_value 0 per opcode of a Span, the blocks of a
\* list in order, wrap_loop between two iterations of a Loop and break_loop
\* after the last, end_block with the sibling hash on leaving the block.
\* ------------------------------------------------------------------------
Taken(block, n) == [block EXCEPT !.run = n]

NoBlock == Span_from_instructions(<<>>)

Op(op, a, b, block) == [op |-> op, a |-> a, b |-> b, block |-> block]

RECURSIVE WalkList(_, _), Repeat(_, _, _)

\* first, then n times (between, first)
Repeat(first, between, n) ==
    IF n = 0 THEN first ELSE first \o between \o Repeat(first, between, n - 1)

WalkBlock(block) ==
    CASE block.kind = "span" ->
            [i \in 1 .. Len(block.instructions) |->
                Op("decode_op", block.instructions[i], 0, NoBlock)]
      [] block.kind = "group" ->
            <<Op("start_block", 0, 0, block)>>
            \o WalkList(block.blocks, 1)
            \o <<Op("end_block", ZERO, 1, NoBlock)>>
      [] block.kind = "switch" ->
            IF block.run = 1
            THEN <<Op("start_block", 0, 0, block)>>
                 \o WalkList(block.t_branch, 1)
                 \o <<Op("end_block", hash_seq(block.f_branch), 1, NoBlock)>>
            ELSE <<Op("start_block", 0, 0, block)>>
                 \o WalkList(block.f_branch, 1)
                 \o <<Op("end_block", hash_seq(block.t_branch), 0, NoBlock)>>
      [] block.kind = "loop" ->
            <<Op("start_loop", hash_seq(block.body), 0, block)>>
            \o Repeat(WalkList(block.body, 1),
                      <<Op("wrap_loop", 0, 0, NoBlock)>>, block.run - 1)
            \o <<Op("break_loop", 0, 0, NoBlock)>>
            \o <<Op("end_block", hash_seq(block.skip), 1, NoBlock)>>

WalkList(blocks, i) ==
    IF i > Len(blocks) THEN <<>>
    ELSE WalkBlock(blocks[i]) \o WalkList(blocks, i + 1)

\* the programs walked: 15 Noops up to the first aligned step, then one block
Preamble == Span_from_instructions(Noops(15))

\* the program Group([Span([Noop x 15])]), decoded from step 0 of a new decoder
EmptyProgram == <<Group_new(<<Span_from_instructions(Noops(15))>>)>>

ProgramLists ==
    LET t16 == <<Span_from_instructions(<<AssertOp>> \o Noops(15))>>
        f16 == <<Span_from_instructions(<<Not, AssertOp>> \o Noops(14))>>
        body15 == <<Span_from_instructions(<<AssertOp>> \o Noops(14))>>
    IN  { EmptyProgram,
          <<Preamble, Group_new(<<Span_from_instructions(Noops(16))>>)>>,
          <<Preamble, Group_new(<<Group_new(<<Span_from_instructions(Noops(16))>>)>>)>>,
          <<Preamble, Group_new(<<Span_from_instructions(Noops(15))>>)>>,
          <<Preamble, Taken(Switch_new(t16, f16), 1)>>,
          <<Preamble, Taken(Switch_new(t16, f16), 0)>>,
          <<Preamble, Taken(Loop_new(body15), 1)>>,
          <<Preamble, Taken(Loop_new(body15), 2)>>,
          <<Preamble,
            Group_new(<<Span_from_instructions(Noops(15)),
                        Taken(Switch_new(t16, f16), 0),
                        Span_from_instructions(Noops(15))>>)>>,
          <<Preamble,
            Group_new(<<Span_from_instructions(Noops(15)),
                        Taken(Loop_new(body15), 2),
                        Span_from_instructions(Noops(15))>>)>>,
          <<Preamble,
            Group_new(<<Span_from_instructions(Noops(14) \o <<Not>>),
                        Taken(Switch_new(t16, f16), 1),
                        Span_from_instructions(Noops(15))>>)>> }

\* the programs whose blocks were all constructed
Programs == {program \in ProgramLists : Constructed(program)}

InitTree ==
    /\ InitDecoder
    /\ NoAssembly
    /\ \E program \in Programs :
            walk = [program |-> program, todo |-> WalkList(program, 1),
                    open |-> <<>>, closed |-> <<>>]

Doing(op) == walk.todo # <<>> /\ Head(walk.todo).op = op

\* the walk after an operation that entered a block, left one, or did neither
Enter ==
    /\ walk' = IF err' # "none" THEN walk
                   ELSE [program |-> walk.program, todo |-> Tail(walk.todo),
                         open |-> <<[block |-> Head(walk.todo).block, prev |-> sponge]>>
                                  \o walk.open,
                         closed |-> <<>>]
    /\ UNCHANGED <<assemblerVars, built>>

Leave ==
    /\ walk' = IF err' # "none" THEN walk
                   ELSE [program |-> walk.program, todo |-> Tail(walk.todo),
                         open |-> Tail(walk.open), closed |-> <<Head(walk.open)>>]
    /\ UNCHANGED <<assemblerVars, built>>

Pass ==
    /\ walk' = IF err' # "none" THEN walk
                   ELSE [walk EXCEPT !.todo = Tail(@), !.closed = <<>>]
    /\ UNCHANGED <<assemblerVars, built>>

NextTree ==
    \/ Doing("start_block") /\ StartBlock /\ Enter
    \/ Doing("decode_op")
            /\ DecodeOp({Head(walk.todo).a}, {Head(walk.todo).b}, Nat) /\ Pass
    \/ Doing("end_block")
            /\ EndBlock({Head(walk.todo).a}, {Head(walk.todo).b = 1}) /\ Leave
    \/ Doing("start_loop") /\ StartLoop({Head(walk.todo).a}) /\ Enter
    \/ Doing("wrap_loop") /\ WrapLoop /\ Pass
    \/ Doing("break_loop") /\ BreakLoop /\ Pass
    \/ walk.todo = <<>> /\ used.fin = 0 /\ FinalizeTrace /\ UNCHANGED <<walk, assemblerVars, built>>

SpecTree == InitTree /\ [][NextTree]_vars

\* ------------------------------------------------------------------------
\* Assembler: the mnemonic parsers of programs/program2/assembly/parsers.rs.
\* A token op is the mnemonic and its parameters, op.len() = 1 + the number
\* of parameters; a parameter is its text, a sequence of characters.  An
\* opcode is the name of its Opcode variant.  A u128 is the set of the
\* positions of its one bits, so that 2^127 is a value like any other.
\* The parameter step of a parser, the index of the token, is tstep here.
\* ------------------------------------------------------------------------
HASH_OP_ALIGNMENT == 16

\* field::MODULUS = 2^128 - 45 * 2^40 + 1
MODULUS == {0} \cup ((40 .. 127) \ {42, 43, 45})

\* a >= b for two u128
u128_ge(a, b) ==
    \/ a = b
    \/ a # b /\ LET d == (a \ b) \cup (b \ a)
                IN  (CHOOSE i \in d : \A j \in d : j <= i) \in a

\* the u128 of a number below 2^31
u128_from(v) == {i \in 0 .. 30 : Bit(v, i) = 1}

\* u128::pow(2, e), e < 128
u128_pow2(e) == {e}

DigitChars ==
    <<"0", "1", "2", "3", "4", "5", "6", "7", "8", "9", "a", "b", "c", "d", "e", "f">>

\* char::to_digit: the value of the character c, 16 when it is no digit
to_digit(c) ==
    IF \E i \in 1 .. 16 : DigitChars[i] = c
    THEN (CHOOSE i \in 1 .. 16 : DigitChars[i] = c) - 1
    ELSE 16

is_number(text, radix) ==
    text # <<>> /\ \A i \in 1 .. Len(text) : to_digit(text[i]) < radix

RECURSIVE fold_digits(_, _, _)
fold_digits(text, radix, acc) ==
    IF text = <<>> THEN acc
    ELSE fold_digits(Tail(text), radix, acc * radix + to_digit(Head(text)))

\* the text of the number n in decimal
RECURSIVE decimal(_)
decimal(n) ==
    IF n < 10 THEN <<DigitChars[n + 1]>>
    ELSE decimal(n \div 10) \o <<DigitChars[(n % 10) + 1]>>

\* str::parse::<u32>, for texts of at most nine characters
parse_u32(text) ==
    IF is_number(text, 10)
    THEN [ok |-> TRUE, value |-> fold_digits(text, 10, 0)]
    ELSE [ok |-> FALSE, value |-> 0]

\* u128::from_str_radix: a hexadecimal text digit by digit, a decimal text of
\* at most nine characters by its number
from_str_radix(text, radix) ==
    LET hex == UNION {{4 * (Len(text) - i) + j : j \in {k \in 0 .. 3 :
                            Bit(to_digit(text[i]), k) = 1}} : i \in 1 .. Len(text)}
    IN  IF ~is_number(text, radix) THEN [ok |-> FALSE, value |-> {}]
        ELSE IF radix = 16
             THEN [ok |-> \A b \in hex : b < 128, value |-> hex]
             ELSE [ok |-> TRUE, value |-> u128_from(fold_digits(text, 10, 0))]

Token(name, params) == [name |-> name, params |-> params]

len(op) == 1 + Len(op.params)

\* Result<bool, AssemblyError>: Ok(true), or the error with its token and tstep
OkTrue == [kind |-> "Ok", op |-> NoToken, step |-> 0]

AssemblyError(kind, op, tstep) == [kind |-> kind, op |-> op, step |-> tstep]

\* OpHint
PushValue(value) == [hint |-> "PushValue", value |-> value]
CmpStart(n) == [hint |-> "CmpStart", n |-> n]
RcStart(n) == [hint |-> "RcStart", n |-> n]
EqStart == [hint |-> "EqStart"]

\* HashMap::insert
insert(hints, key, value) ==
    [i \in (DOMAIN hints) \cup {key} |-> IF i = key THEN value ELSE hints[i]]

\* what a parser leaves behind: the program (and the hint map) and its result
Ret(program, result) == [program |-> program, result |-> result]

RetH(program, hints, result) ==
    [program |-> program, hints |-> hints, result |-> result]

\* read_param demanding its parameter, as read_value does
read_param_required(op, tstep) ==
    IF len(op) = 1
    THEN [ok |-> FALSE, value |-> 0, err |-> AssemblyError("MissingParam", op, tstep)]
    ELSE IF len(op) > 2
    THEN [ok |-> FALSE, value |-> 0, err |-> AssemblyError("ExtraParam", op, tstep)]
    ELSE LET result == parse_u32(op.params[1])
         IN  IF ~result.ok
             THEN [ok |-> FALSE, value |-> 0,
                   err |-> AssemblyError("InvalidParam", op, tstep)]
             ELSE IF result.value = 0
             THEN [ok |-> FALSE, value |-> 0,
                   err |-> AssemblyError("InvalidParamReason", op, tstep)]
             ELSE [ok |-> TRUE, value |-> result.value, err |-> OkTrue]

read_param(op, tstep) ==
    IF len(op) = 1 THEN [ok |-> TRUE, value |-> 1, err |-> OkTrue]
    ELSE IF len(op) > 2
    THEN [ok |-> FALSE, value |-> 0, err |-> AssemblyError("ExtraParam", op, tstep)]
    ELSE LET result == parse_u32(op.params[1])
         IN  IF ~result.ok
             THEN [ok |-> FALSE, value |-> 0,
                   err |-> AssemblyError("InvalidParam", op, tstep)]
             ELSE IF result.value = 0
             THEN [ok |-> FALSE, value |-> 0,
                   err |-> AssemblyError("InvalidParamReason", op, tstep)]
             ELSE [ok |-> TRUE, value |-> result.value, err |-> OkTrue]

read_value_any_u128(op, tstep) ==
    IF len(op) = 1
    THEN [ok |-> FALSE, value |-> {}, err |-> AssemblyError("MissingParam", op, tstep)]
    ELSE IF len(op) > 2
    THEN [ok |-> FALSE, value |-> {}, err |-> AssemblyError("ExtraParam", op, tstep)]
    ELSE LET text == op.params[1]
             result == IF Len(text) >= 2 /\ text[1] = "0" /\ text[2] = "x"
                       THEN from_str_radix(SubSeq(text, 3, Len(text)), 16)
                       ELSE from_str_radix(text, 10)
         IN  IF ~result.ok
             THEN [ok |-> FALSE, value |-> {},
                   err |-> AssemblyError("InvalidParam", op, tstep)]
             ELSE IF FALSE
             THEN [ok |-> FALSE, value |-> {},
                   err |-> AssemblyError("InvalidParamReason", op, tstep)]
             ELSE [ok |-> TRUE, value |-> result.value, err |-> OkTrue]

read_value(op, tstep) ==
    IF len(op) = 1
    THEN [ok |-> FALSE, value |-> {}, err |-> AssemblyError("MissingParam", op, tstep)]
    ELSE IF len(op) > 2
    THEN [ok |-> FALSE, value |-> {}, err |-> AssemblyError("ExtraParam", op, tstep)]
    ELSE LET text == op.params[1]
             result == IF Len(text) >= 2 /\ text[1] = "0" /\ text[2] = "x"
                       THEN from_str_radix(SubSeq(text, 3, Len(text)), 16)
                       ELSE from_str_radix(text, 10)
         IN  IF ~result.ok
             THEN [ok |-> FALSE, value |-> {},
                   err |-> AssemblyError("InvalidParam", op, tstep)]
             ELSE IF u128_ge(result.value, MODULUS)
             THEN [ok |-> FALSE, value |-> {},
                   err |-> AssemblyError("InvalidParamReason", op, tstep)]
             ELSE [ok |-> TRUE, value |-> result.value, err |-> OkTrue]

\* a parser that takes no parameter and appends the opcodes of slice
no_param(program, op, tstep, slice) ==
    IF len(op) > 1 THEN Ret(program, AssemblyError("ExtraParam", op, tstep))
    ELSE Ret(program \o slice, OkTrue)

\* a parser that matches its parameter n against the keys of table
match_param(program, op, tstep, table) ==
    LET n == read_param(op, tstep)
    IN  IF ~n.ok THEN Ret(program, n.err)
        ELSE IF n.value \in DOMAIN table
        THEN Ret(program \o table[n.value], OkTrue)
        ELSE Ret(program, AssemblyError("InvalidParamReason", op, tstep))

parse_noop(program, op, tstep) == no_param(program, op, tstep, <<"Noop">>)

parse_assert(program, op, tstep) ==
    IF len(op) > 2 THEN Ret(program, AssemblyError("ExtraParam", op, tstep))
    ELSE IF len(op) = 1 THEN Ret(Append(program, "Assert"), OkTrue)
    ELSE IF op.params[1] = <<"e", "q">>
    THEN Ret(Append(program, "AssertEq"), OkTrue)
    ELSE Ret(program, AssemblyError("InvalidParamReason", op, tstep))

append_push_op_unpadded(program, hints, value) ==
    [program |-> Append(program, "Push"),
     hints |-> insert(hints, Len(program), PushValue(value))]

append_push_op_early_hint(program, hints, value) ==
    LET alignment == Len(program) % PUSH_OP_ALIGNMENT
        pad_length == (PUSH_OP_ALIGNMENT - alignment) % PUSH_OP_ALIGNMENT
        padded == resize(program, Len(program) + pad_length, "Noop")
    IN  [program |-> Append(padded, "Push"),
         hints |-> insert(hints, Len(program), PushValue(value))]

append_push_op(program, hints, value) ==
    LET alignment == Len(program) % PUSH_OP_ALIGNMENT
        pad_length == (PUSH_OP_ALIGNMENT - alignment) % PUSH_OP_ALIGNMENT
        padded == resize(program, Len(program) + pad_length, "Noop")
    IN  [program |-> Append(padded, "Push"),
         hints |-> insert(hints, Len(padded), PushValue(value))]

parse_push(program, hints, op, tstep) ==
    LET value == read_value(op, tstep)
    IN  IF ~value.ok THEN RetH(program, hints, value.err)
        ELSE LET r == append_push_op(program, hints, value.value)
             IN  RetH(r.program, r.hints, OkTrue)

parse_read(program, op, tstep) ==
    IF len(op) > 2 THEN Ret(program, AssemblyError("ExtraParam", op, tstep))
    ELSE IF len(op) = 1 \/ op.params[1] = <<"a">>
    THEN Ret(Append(program, "Read"), OkTrue)
    ELSE IF op.params[1] = <<"a", "b">>
    THEN Ret(Append(program, "Read2"), OkTrue)
    ELSE Ret(program, AssemblyError("InvalidParamReason", op, tstep))

parse_dup(program, op, tstep) ==
    match_param(program, op, tstep,
        <<(<<"Dup">>), <<"Dup2">>, <<"Dup4", "Roll4", "Drop">>, <<"Dup4">>>>)

parse_pad(program, op, tstep) ==
    match_param(program, op, tstep,
        <<(<<"Pad2", "Drop">>), <<"Pad2">>, <<"Pad2", "Pad2", "Drop">>,
          <<"Pad2", "Pad2">>, <<"Pad2", "Pad2", "Pad2", "Drop">>,
          <<"Pad2", "Pad2", "Pad2">>, <<"Pad2", "Pad2", "Dup4", "Drop">>,
          <<"Pad2", "Pad2", "Dup4">>>>)

parse_pick(program, op, tstep) ==
    match_param(program, op, tstep,
        <<(<<"Dup2", "Drop">>), <<"Dup4", "Roll4", "Drop", "Drop", "Drop">>,
          <<"Dup4", "Drop", "Drop", "Drop">>>>)

parse_drop(program, op, tstep) ==
    match_param(program, op, tstep,
        <<(<<"Drop">>), <<"Drop", "Drop">>, <<"Dup", "Drop4">>, <<"Drop4">>,
          <<"Drop", "Drop4">>, <<"Drop", "Drop", "Drop4">>,
          <<"Dup", "Drop4", "Drop4">>, <<"Drop4", "Drop4">>>>)

parse_swap(program, op, tstep) ==
    match_param(program, op, tstep,
        (1 :> <<"Swap">>) @@ (2 :> <<"Swap2">>) @@ (4 :> <<"Swap4">>))

parse_roll(program, op, tstep) ==
    match_param(program, op, tstep, (4 :> <<"Roll4">>) @@ (8 :> <<"Roll8">>))

parse_add(program, op, tstep) == no_param(program, op, tstep, <<"Add">>)
parse_sub(program, op, tstep) == no_param(program, op, tstep, <<"Neg", "Add">>)
parse_mul(program, op, tstep) == no_param(program, op, tstep, <<"Mul">>)
parse_div(program, op, tstep) == no_param(program, op, tstep, <<"Inv", "Mul">>)
parse_neg(program, op, tstep) == no_param(program, op, tstep, <<"Neg">>)
parse_inv(program, op, tstep) == no_param(program, op, tstep, <<"Inv">>)
parse_not(program, op, tstep) == no_param(program, op, tstep, <<"Not">>)
parse_and(program, op, tstep) == no_param(program, op, tstep, <<"And">>)
parse_or(program, op, tstep) == no_param(program, op, tstep, <<"Or">>)

parse_eq_hint_at_eq(program, hints, op, tstep) ==
    IF len(op) > 1 THEN RetH(program, hints, AssemblyError("ExtraParam", op, tstep))
    ELSE RetH(program \o <<"Read", "Eq">>,
              insert(hints, Len(program) + 1, EqStart), OkTrue)

parse_eq(program, hints, op, tstep) ==
    IF len(op) > 1 THEN RetH(program, hints, AssemblyError("ExtraParam", op, tstep))
    ELSE RetH(program \o <<"Read", "Eq">>,
              insert(hints, Len(program), EqStart), OkTrue)

parse_gt_as_lt(program, hints, op, tstep) ==
    LET n == read_param(op, tstep)
    IN  IF ~n.ok THEN RetH(program, hints, n.err)
        ELSE IF n.value < 4 \/ n.value > 128
        THEN RetH(program, hints, AssemblyError("InvalidParamReason", op, tstep))
        ELSE LET prepared == program \o <<"Pad2", "Pad2", "Pad2", "Dup">>
                 power_of_two == u128_pow2(n.value - 1)
                 r == append_push_op(prepared, hints, power_of_two)
                 h == insert(r.hints, Len(r.program), CmpStart(n.value))
                 p == resize(r.program, Len(r.program) + n.value, "Cmp")
             IN  RetH(p \o <<"Drop4", "Pad2", "Swap4", "Roll4", "AssertEq", "AssertEq", "Dup",
                           "Drop4">>,
                      h, OkTrue)

parse_gt_prepare_first(program, hints, op, tstep) ==
    LET n == read_param(op, tstep)
        prepared == program \o <<"Pad2", "Pad2", "Pad2", "Dup">>
    IN  IF ~n.ok THEN RetH(prepared, hints, n.err)
        ELSE IF n.value < 4 \/ n.value > 128
        THEN RetH(prepared, hints, AssemblyError("InvalidParamReason", op, tstep))
        ELSE LET power_of_two == u128_pow2(n.value - 1)
                 r == append_push_op(prepared, hints, power_of_two)
                 h == insert(r.hints, Len(r.program), CmpStart(n.value))
                 p == resize(r.program, Len(r.program) + n.value, "Cmp")
             IN  RetH(p \o <<"Drop4", "Pad2", "Swap4", "Roll4", "AssertEq", "AssertEq", "Roll4",
                           "Dup", "Drop4">>,
                      h, OkTrue)

parse_gt(program, hints, op, tstep) ==
    LET n == read_param(op, tstep)
    IN  IF ~n.ok THEN RetH(program, hints, n.err)
        ELSE IF n.value < 4 \/ n.value > 128
        THEN RetH(program, hints, AssemblyError("InvalidParamReason", op, tstep))
        ELSE LET prepared == program \o <<"Pad2", "Pad2", "Pad2", "Dup">>
                 power_of_two == u128_pow2(n.value - 1)
                 r == append_push_op(prepared, hints, power_of_two)
                 h == insert(r.hints, Len(r.program), CmpStart(n.value))
                 p == resize(r.program, Len(r.program) + n.value, "Cmp")
             IN  RetH(p \o <<"Drop4", "Pad2", "Swap4", "Roll4", "AssertEq", "AssertEq", "Roll4",
                           "Dup", "Drop4">>,
                      h, OkTrue)

parse_lt_as_gt(program, hints, op, tstep) ==
    LET n == read_param(op, tstep)
    IN  IF ~n.ok THEN RetH(program, hints, n.err)
        ELSE IF n.value < 4 \/ n.value > 128
        THEN RetH(program, hints, AssemblyError("InvalidParamReason", op, tstep))
        ELSE LET prepared == program \o <<"Pad2", "Pad2", "Pad2", "Dup">>
                 power_of_two == u128_pow2(n.value - 1)
                 r == append_push_op(prepared, hints, power_of_two)
                 h == insert(r.hints, Len(r.program), CmpStart(n.value))
                 p == resize(r.program, Len(r.program) + n.value, "Cmp")
             IN  RetH(p \o <<"Drop4", "Pad2", "Swap4", "Roll4", "AssertEq", "AssertEq", "Roll4",
                           "Dup", "Drop4">>,
                      h, OkTrue)

parse_lt(program, hints, op, tstep) ==
    LET n == read_param(op, tstep)
    IN  IF ~n.ok THEN RetH(program, hints, n.err)
        ELSE IF n.value < 4 \/ n.value > 128
        THEN RetH(program, hints, AssemblyError("InvalidParamReason", op, tstep))
        ELSE LET prepared == program \o <<"Pad2", "Pad2", "Pad2", "Dup">>
                 power_of_two == u128_pow2(n.value - 1)
                 r == append_push_op(prepared, hints, power_of_two)
                 h == insert(r.hints, Len(r.program), CmpStart(n.value))
                 p == resize(r.program, Len(r.program) + n.value, "Cmp")
             IN  RetH(p \o <<"Drop4", "Pad2", "Swap4", "Roll4", "AssertEq", "AssertEq", "Dup",
                           "Drop4">>,
                      h, OkTrue)

parse_rc_hint_first(program, hints, op, tstep) ==
    LET n == read_param(op, tstep)
    IN  IF ~n.ok THEN RetH(program, hints, n.err)
        ELSE IF n.value < 4 \/ n.value > 128
        THEN RetH(program, hints, AssemblyError("InvalidParamReason", op, tstep))
        ELSE LET prepared == Append(program, "Pad2")
                 power_of_two == u128_pow2(n.value - 1)
                 r == append_push_op(prepared, hints, power_of_two)
                 h == insert(r.hints, Len(r.program), RcStart(n.value))
                 p == resize(r.program, Len(r.program) + n.value, "BinAcc")
                 q == p \o <<"Drop", "Drop">>
             IN  RetH(q \o <<"Read", "Eq">>, insert(h, Len(p), EqStart), OkTrue)

parse_rc(program, hints, op, tstep) ==
    LET n == read_param(op, tstep)
    IN  IF ~n.ok THEN RetH(program, hints, n.err)
        ELSE IF n.value < 4 \/ n.value > 128
        THEN RetH(program, hints, AssemblyError("InvalidParamReason", op, tstep))
        ELSE LET prepared == Append(program, "Pad2")
                 power_of_two == u128_pow2(n.value - 1)
                 r == append_push_op(prepared, hints, power_of_two)
                 h == insert(r.hints, Len(r.program), RcStart(n.value))
                 p == resize(r.program, Len(r.program) + n.value, "BinAcc")
                 q == p \o <<"Drop", "Drop">>
             IN  RetH(q \o <<"Read", "Eq">>, insert(h, Len(q), EqStart), OkTrue)

parse_isodd(program, hints, op, tstep) ==
    LET n == read_param(op, tstep)
    IN  IF ~n.ok THEN RetH(program, hints, n.err)
        ELSE IF n.value < 4 \/ n.value > 128
        THEN RetH(program, hints, AssemblyError("InvalidParamReason", op, tstep))
        ELSE LET prepared == Append(program, "Pad2")
                 power_of_two == u128_pow2(n.value - 1)
                 r == append_push_op(prepared, hints, power_of_two)
                 h == insert(r.hints, Len(r.program), RcStart(n.value))
                 p == resize(r.program, Len(r.program) + n.value, "BinAcc")
             IN  RetH(p \o <<"Swap2", "AssertEq", "Drop">>, h, OkTrue)

parse_choose(program, op, tstep) ==
    match_param(program, op, tstep, <<(<<"Choose">>), <<"Choose2">>>>)

\* pad with Noops up to a program length that is a multiple of 16
pad_to_hash_alignment(program) ==
    LET alignment == Len(program) % HASH_OP_ALIGNMENT
        pad_length == (HASH_OP_ALIGNMENT - alignment) % HASH_OP_ALIGNMENT
    IN  resize(program, Len(program) + pad_length, "Noop")

RescRounds == [i \in 1 .. 10 |-> "RescR"]

parse_hash_unpadded(program, op, tstep) ==
    LET r == match_param(program, op, tstep,
                <<(<<"Pad2", "Pad2", "Pad2", "Drop">>), <<"Pad2", "Pad2">>,
                  <<"Pad2", "Pad2", "Drop">>, <<"Pad2">>>>)
    IN  IF r.result # OkTrue THEN r
        ELSE Ret(r.program \o RescRounds \o <<"Drop4">>, OkTrue)

parse_hash(program, op, tstep) ==
    LET r == match_param(program, op, tstep,
                <<(<<"Pad2", "Pad2", "Pad2", "Drop">>), <<"Pad2", "Pad2">>,
                  <<"Pad2", "Pad2", "Drop">>, <<"Pad2">>>>)
    IN  IF r.result # OkTrue THEN r
        ELSE Ret(pad_to_hash_alignment(r.program) \o RescRounds \o <<"Drop4">>,
                 OkTrue)

SUB_CYCLE ==
    RescRounds
    \o <<"Drop4", "Read2", "Swap2", "Swap4", "Swap2", "Pad2">>
    \o RescRounds
    \o <<"Drop4", "Choose2", "Read2", "Dup4", "Pad2", "Noop">>

\* count times extend_from_slice(slice)
repeat_slice(slice, count) ==
    [i \in 1 .. (count * Len(slice)) |-> slice[((i - 1) % Len(slice)) + 1]]

parse_mpath(program, op, tstep) ==
    LET n == read_param(op, tstep)
    IN  IF ~n.ok THEN Ret(program, n.err)
        ELSE IF n.value < 2 \/ n.value > 256
        THEN Ret(program, AssemblyError("InvalidParamReason", op, tstep))
        ELSE Ret(pad_to_hash_alignment(program \o <<"Read2", "Dup4", "Pad2">>)
                 \o repeat_slice(SUB_CYCLE, n.value - 2)
                 \o SubSeq(SUB_CYCLE, 1, 28), OkTrue)

\* gt_finale and lt_finale of the comparison tests: the opcodes they execute
gt_finale ==
    <<"Drop4", "Pad2", "Swap4", "Roll4", "AssertEq", "AssertEq", "Roll4", "Dup",
      "Drop4">>

lt_finale ==
    <<"Drop4", "Pad2", "Swap4", "Roll4", "AssertEq", "AssertEq", "Dup", "Drop4">>

\* the parsers that take no hint map leave it as it is
Keep(r, hints) == RetH(r.program, hints, r.result)

\* the parser of each mnemonic
parse_op(program, hints, op, tstep) ==
    CASE op.name = "noop" -> Keep(parse_noop(program, op, tstep), hints)
      [] op.name = "assert" -> Keep(parse_assert(program, op, tstep), hints)
      [] op.name = "push" -> parse_push(program, hints, op, tstep)
      [] op.name = "read" -> Keep(parse_read(program, op, tstep), hints)
      [] op.name = "dup" -> Keep(parse_dup(program, op, tstep), hints)
      [] op.name = "pad" -> Keep(parse_pad(program, op, tstep), hints)
      [] op.name = "pick" -> Keep(parse_pick(program, op, tstep), hints)
      [] op.name = "drop" -> Keep(parse_drop(program, op, tstep), hints)
      [] op.name = "swap" -> Keep(parse_swap(program, op, tstep), hints)
      [] op.name = "roll" -> Keep(parse_roll(program, op, tstep), hints)
      [] op.name = "add" -> Keep(parse_add(program, op, tstep), hints)
      [] op.name = "sub" -> Keep(parse_sub(program, op, tstep), hints)
      [] op.name = "mul" -> Keep(parse_mul(program, op, tstep), hints)
      [] op.name = "div" -> Keep(parse_div(program, op, tstep), hints)
      [] op.name = "neg" -> Keep(parse_neg(program, op, tstep), hints)
      [] op.name = "inv" -> Keep(parse_inv(program, op, tstep), hints)
      [] op.name = "not" -> Keep(parse_not(program, op, tstep), hints)
      [] op.name = "and" -> Keep(parse_and(program, op, tstep), hints)
      [] op.name = "or" -> Keep(parse_or(program, op, tstep), hints)
      [] op.name = "eq" -> parse_eq(program, hints, op, tstep)
      [] op.name = "gt" -> parse_gt(program, hints, op, tstep)
      [] op.name = "lt" -> parse_lt(program, hints, op, tstep)
      [] op.name = "rc" -> parse_rc(program, hints, op, tstep)
      [] op.name = "isodd" -> parse_isodd(program, hints, op, tstep)
      [] op.name = "choose" -> Keep(parse_choose(program, op, tstep), hints)
      [] op.name = "hash" -> Keep(parse_hash(program, op, tstep), hints)
      [] op.name = "mpath" -> Keep(parse_mpath(program, op, tstep), hints)

\* ------------------------------------------------------------------------
\* The driver of the assembler: at most MaxLead noop tokens, then one token of
\* FirstTokens and one of SecondTokens, each handed to the parser of its
\* mnemonic with the program and the hint map as they stand.  Nothing is
\* parsed after a token that was rejected.
\* ------------------------------------------------------------------------
MaxLead == 16

NoParam ==
    {"noop", "assert", "read", "add", "sub", "mul", "div", "neg", "inv", "not",
     "and", "or", "eq"}

WithParam ==
    {"dup", "pad", "pick", "drop", "swap", "roll", "choose", "hash", "mpath",
     "gt", "lt", "rc", "isodd"}

Widths == {3, 4, 5, 64, 128, 129}

\* the text of a u128 as 32 hexadecimal digits after "0x"
hex_text(value) ==
    <<"0", "x">>
    \o [i \in 1 .. 32 |->
            DigitChars[1 + (IF 4 * (32 - i) \in value THEN 1 ELSE 0)
                         + (IF 4 * (32 - i) + 1 \in value THEN 2 ELSE 0)
                         + (IF 4 * (32 - i) + 2 \in value THEN 4 ELSE 0)
                         + (IF 4 * (32 - i) + 3 \in value THEN 8 ELSE 0)]]

\* texts that are no unsigned decimal number
BadNumbers == {<<"x">>, <<"0", "x", "4">>, <<"2", "a">>, <<>>}

\* texts that are no decimal and no 0x-hexadecimal u128: the last is 2^128
BadValues ==
    {<<"x">>, <<"2", "a">>, <<"0", "x">>, <<"0", "x", "x">>, <<>>,
     <<"0", "x", "1">> \o [i \in 1 .. 32 |-> "0"]}

FirstTokens ==
    {Token(name, <<>>) : name \in NoParam \cup WithParam \cup {"push"}}
    \cup {Token(name, <<decimal(1), decimal(2)>>) :
                name \in NoParam \cup WithParam \cup {"push"}}
    \cup {Token(name, <<decimal(1)>>) : name \in NoParam}
    \cup {Token(name, <<decimal(n)>>) : name \in WithParam, n \in 0 .. 9}
    \cup {Token(name, <<decimal(n)>>) : name \in {"gt", "lt", "rc", "isodd"},
                                        n \in Widths}
    \cup {Token("mpath", <<decimal(n)>>) : n \in {256, 257}}
    \cup {Token(name, <<text>>) : name \in WithParam, text \in BadNumbers}
    \cup {Token("push", <<text>>) : text \in BadValues}
    \cup {Token("push", <<hex_text(value)>>) :
                value \in {MODULUS \ {0}, MODULUS, MODULUS \cup {1}, 0 .. 127}}
    \cup {Token("assert", <<(<<"e", "q">>)>>), Token("read", <<(<<"a">>)>>),
          Token("read", <<(<<"a", "b">>)>>), Token("read", <<(<<"e", "q">>)>>),
          Token("push", <<decimal(42)>>), Token("push", <<(<<"0", "x", "2", "a">>)>>),
          Token("push", <<decimal(0)>>)}

SecondTokens ==
    {Token("noop", <<>>), Token("eq", <<>>), Token("push", <<decimal(42)>>),
     Token("gt", <<decimal(4)>>), Token("lt", <<decimal(5)>>),
     Token("rc", <<decimal(4)>>), Token("isodd", <<decimal(5)>>),
     Token("hash", <<decimal(1)>>), Token("hash", <<decimal(4)>>),
     Token("mpath", <<decimal(2)>>), Token("mpath", <<decimal(3)>>),
     Token("gt", <<decimal(3)>>), Token("drop", <<decimal(7)>>),
     Token("hash", <<decimal(5)>>), Token("mpath", <<decimal(1)>>),
     Token("push", <<>>), Token("rc", <<decimal(129)>>),
     Token("isodd", <<(<<"x">>)>>), Token("eq", <<decimal(1)>>),
     Token("push", <<hex_text(MODULUS)>>)}

Parse(tokens, phase) ==
    \E op \in tokens :
        \E r \in {parse_op(asm_program, asm_hints, op, parsed.step)} :
            /\ asm_program' = r.program
            /\ asm_hints' = r.hints
            /\ parsed' = [op |-> op, step |-> parsed.step + 1,
                          at |-> Len(asm_program), before |-> asm_program,
                          hints |-> asm_hints, result |-> r.result.kind,
                          phase |-> phase]

InitAsm == InitDecoder /\ walk = NoWalk /\ NoAssembly

NextAsm ==
    \/ /\ parsed.phase = 0 /\ parsed.step < MaxLead
       /\ Parse({Token("noop", <<>>)}, 0)
       /\ UNCHANGED <<decoderVars, driverVars, built>>
    \/ /\ parsed.phase = 0
       /\ Parse(FirstTokens, 1)
       /\ UNCHANGED <<decoderVars, driverVars, built>>
    \/ /\ parsed.phase = 1 /\ parsed.result = "Ok"
       /\ Parse(SecondTokens, 2)
       /\ UNCHANGED <<decoderVars, driverVars, built>>

SpecAsm == InitAsm /\ [][NextAsm]_vars

\* ------------------------------------------------------------------------
\* The block driver: one block is constructed from a list of blocks
\* (Group::new, Loop::new) or from two lists (Switch::new), and a constructed
\* block is hashed from a state.
\* ------------------------------------------------------------------------
SpanAssert == Span_from_instructions(<<AssertOp>> \o Noops(14))
SpanNotAssert == Span_from_instructions(<<Not, AssertOp>> \o Noops(13))
SpanNoops == Span_from_instructions(Noops(15))
InnerGroup == Group_new(<<SpanNoops>>)

\* the blocks the lists are made of
Pieces == {SpanAssert, SpanNotAssert, SpanNoops, InnerGroup}

\* the longest list of blocks
MaxBlocks == 4

BlockLists == UNION {[1 .. k -> Pieces] : k \in 0 .. MaxBlocks}

\* the lists the other branch of a Switch is drawn from
ShortLists ==
    {<<>>, <<SpanAssert>>, <<SpanNotAssert>>, <<SpanNoops>>,
     <<SpanNotAssert, InnerGroup>>, <<SpanAssert, SpanNoops>>, <<InnerGroup>>}

\* the states a block is hashed from
HashStates == {<<0, 0, 0, 0>>, <<3, 1, 2, 4>>, <<3, 5, 0, 6>>}

Build(name, a, b, block) ==
    built' = [call |-> name, a |-> a, b |-> b, block |-> block,
                 hashed |-> FALSE, state |-> ZeroState, hash |-> ZeroState]

NewGroup ==
    /\ built.call = "none"
    /\ \E blocks \in BlockLists :
          Build("Group::new", blocks, <<>>, Group_new(blocks))

NewSwitch ==
    /\ built.call = "none"
    /\ \E t \in BlockLists, f \in ShortLists :
          \/ Build("Switch::new", t, f, Switch_new(t, f))
          \/ Build("Switch::new", f, t, Switch_new(f, t))

NewLoop ==
    /\ built.call = "none"
    /\ \E body \in BlockLists :
          Build("Loop::new", body, <<>>, Loop_new(body))

Hash ==
    /\ built.call # "none"
    /\ built.block.ok
    /\ ~built.hashed
    /\ \E state \in HashStates :
          built' = [built EXCEPT !.hashed = TRUE, !.state = state,
                                 !.hash = ProgramBlock_hash(built.block, state)]

InitBlocks == InitDecoder /\ walk = NoWalk /\ NoAssembly

NextBlocks ==
    \/ NewGroup /\ UNCHANGED <<decoderVars, driverVars, assemblerVars>>
    \/ NewSwitch /\ UNCHANGED <<decoderVars, driverVars, assemblerVars>>
    \/ NewLoop /\ UNCHANGED <<decoderVars, driverVars, assemblerVars>>
    \/ Hash /\ UNCHANGED <<decoderVars, driverVars, assemblerVars>>

SpecBlocks == InitBlocks /\ [][NextBlocks]_vars

\* ------------------------------------------------------------------------
\* Reading the trace
\* ------------------------------------------------------------------------
\* the tag the cf_op_bits registers hold at row r, least significant bit first
FlowTag(cf, r) == Row(cf[1], r) + 2 * Row(cf[2], r) + 4 * Row(cf[3], r)

FlowOpAt(r) == FlowTag(cf_op_bits, r)

\* the tag the ld_op_bits (low) and hd_op_bits (high) registers hold at row r
UserTag(ld, hd, r) ==
    Row(ld[1], r) + 2 * Row(ld[2], r) + 4 * Row(ld[3], r) + 8 * Row(ld[4], r)
    + 16 * Row(ld[5], r) + 32 * Row(hd[1], r) + 64 * Row(hd[2], r)

UserOpAt(r) == UserTag(ld_op_bits, hd_op_bits, r)

\* the op-bit registers, in the order cf, ld, hd
OpBits(cf, ld, hd) == cf \o ld \o hd

StartOps == {"start_block", "start_loop", "wrap_loop", "break_loop"}
StepOps == StartOps \cup {"end_block", "decode_op"}

Completed(op) == call.op = op /\ err = "none"

\* ------------------------------------------------------------------------
\* C2: start_block, start_loop, wrap_loop and break_loop complete only when
\* called at a step with step % 16 = 15, end_block only at a step with
\* step % 16 = 0, and each is stopped with the alignment error at any other
\* step; so every row of the trace that records Begin, Loop, Wrap or Break is
\* a row r with r % 16 = 15 and every row that records Tend or Fend is a row r
\* with r % 16 = 0.
\* ------------------------------------------------------------------------
C2_ControlFlowAlignment ==
    /\ call.op \in StartOps =>
          /\ err = "none" => pre.step % 16 = 15
          /\ pre.step % 16 # 15 => err = "alignment"
    /\ call.op = "end_block" =>
          /\ err = "none" => pre.step % 16 = 0
          /\ pre.step % 16 # 0 => err = "alignment"
    /\ \A r \in 0 .. (Len(cf_op_bits[1]) - 1) :
          /\ FlowOpAt(r) \in {Begin, Loop, Wrap, Break} => r % 16 = 15
          /\ FlowOpAt(r) \in {Tend, Fend} => r % 16 = 0

C2_Witness ==
    /\ Completed("break_loop")
    /\ FlowOpAt(15) = Loop
    /\ FlowOpAt(31) = Break

\* ------------------------------------------------------------------------
\* C4 as stated: every external operation that completes, finalize_trace
\* included, leaves the step counter one above its value before the call.
\* ------------------------------------------------------------------------
C4_Original ==
    (call.op # "new" /\ err = "none") => step = pre.step + 1

\* C4 as the code has it: start_block, end_block, start_loop, wrap_loop,
\* break_loop and decode_op advance the step counter by exactly one when they
\* complete; finalize_trace leaves the step counter unchanged.
C4_StepAdvance ==
    err = "none" =>
        /\ call.op \in StepOps => step = pre.step + 1
        /\ call.op = "finalize_trace" => step = pre.step

C4_Witness ==
    /\ Completed("finalize_trace")
    /\ step = 33
    /\ FlowOpAt(32) = Tend

\* ------------------------------------------------------------------------
\* C5: an end_block that completes pops the value ctx on top of the context
\* stack, takes block_hash = sponge[0] as it was before the call, records Tend
\* and sets the sponge to (ctx, block_hash, sibling_hash, 0) when true_branch
\* holds, records Fend and sets the sponge to (ctx, sibling_hash, block_hash,
\* 0) otherwise; the loop stack is copied forward unchanged.
\* ------------------------------------------------------------------------
C5_EndBlock ==
    Completed("end_block") =>
        LET ctx == Row(ctx_stack[1], pre.step)
            block_hash == pre.sponge[1]
        IN  /\ ctx_depth = pre.ctx_depth - 1
            /\ pre.frame # Modulus => ctx = pre.frame
            /\ call.b = 1 =>
                  /\ FlowOpAt(pre.step) = Tend
                  /\ sponge = <<ctx, block_hash, call.a, 0>>
            /\ call.b = 0 =>
                  /\ FlowOpAt(pre.step) = Fend
                  /\ sponge = <<ctx, call.a, block_hash, 0>>
            /\ loop_depth = pre.loop_depth
            /\ \A i \in 1 .. Len(loop_stack) :
                  Row(loop_stack[i], step) = Row(loop_stack[i], pre.step)

C5_Witness ==
    /\ Completed("end_block")
    /\ call.b = 0
    /\ call.a = 2
    /\ pre.sponge[1] # call.a
    /\ sponge[1] # 0
    /\ loop_depth = 1

\* ------------------------------------------------------------------------
\* C7: end_block called at context depth 0 is stopped, and wrap_loop and
\* break_loop called at loop depth 0 are stopped, also when loop registers are
\* left allocated by a loop that was broken earlier; when the call is aligned
\* the error is the underflow error, so no value is read from an empty stack.
\* ------------------------------------------------------------------------
C7_UnderflowFatal ==
    /\ (call.op = "end_block" /\ pre.ctx_depth = 0) =>
          /\ err # "none"
          /\ pre.step % 16 = 0 => err = "ctx_underflow"
    /\ (call.op \in {"wrap_loop", "break_loop"} /\ pre.loop_depth = 0) =>
          /\ err # "none"
          /\ pre.step % 16 = 15 => err = "loop_underflow"

C7_Witness ==
    /\ call.op = "wrap_loop"
    /\ err = "loop_underflow"
    /\ pre.loop_depth = 0
    /\ Len(loop_stack) = 1

\* ------------------------------------------------------------------------
\* C8: an aligned wrap_loop or break_loop inside a loop completes exactly when
\* sponge[0] equals the image saved by the most recent start_loop that no
\* break_loop has closed yet; on a mismatch it is stopped with the loop image
\* error and the row of the call records neither Wrap nor Break.
\* ------------------------------------------------------------------------
C8_LoopImageCheck ==
    (/\ call.op \in {"wrap_loop", "break_loop"}
     /\ pre.step % 16 = 15
     /\ pre.loop_depth > 0) =>
        /\ err = "none" <=> pre.sponge[1] = pre.image
        /\ pre.sponge[1] # pre.image =>
              /\ err = "loop_image"
              /\ FlowOpAt(pre.step) \notin {Wrap, Break}

C8_Witness ==
    /\ call.op = "wrap_loop"
    /\ err = "loop_image"
    /\ Len(images) = 2
    /\ pre.sponge[1] = images[2]
    /\ pre.sponge[1] # images[1]

\* ------------------------------------------------------------------------
\* C9: in the initial state and after every operation that completes, row
\* step of each op_acc register holds the matching element of the sponge.
\* ------------------------------------------------------------------------
C9_SpongeTraceConsistency ==
    err = "none" =>
        \A i \in 1 .. SPONGE_WIDTH : Row(op_acc[i], step) = sponge[i]

C9_Witness ==
    /\ Completed("break_loop")
    /\ sponge[1] # 0
    /\ Row(op_acc[1], step) = sponge[1]

\* ------------------------------------------------------------------------
\* C10: an operation that moves the step counter from s to s + 1 writes its
\* op bits at row s and changes no other row of the op-bit registers; at row s
\* every bit is 0 or 1, the cf bits are the binary digits of the flow op's tag
\* and the ld bits followed by the hd bits are the binary digits of the user
\* op's tag, least significant first (Noop for the control-flow operations).
\* ------------------------------------------------------------------------
FlowOpOf(c) ==
    CASE c.op = "start_block" -> Begin
      [] c.op = "end_block" -> IF c.b = 1 THEN Tend ELSE Fend
      [] c.op = "start_loop" -> Loop
      [] c.op = "wrap_loop" -> Wrap
      [] c.op = "break_loop" -> Break
      [] OTHER -> Hacc

UserOpOf(c) == IF c.op = "decode_op" THEN c.a ELSE Noop

C10_OpBitRows ==
    [][(err' = "none" /\ call'.op \in StepOps) =>
        LET old == OpBits(cf_op_bits, ld_op_bits, hd_op_bits)
            now == OpBits(cf_op_bits', ld_op_bits', hd_op_bits')
        IN  /\ step' = step + 1
            /\ \A i \in 1 .. Len(now) :
                  /\ Row(now[i], step) \in {0, 1}
                  /\ \A r \in 0 .. (Len(now[i]) - 1) :
                        r # step =>
                            Row(now[i], r) =
                                IF r < Len(old[i]) THEN Row(old[i], r) ELSE 0
            /\ FlowTag(cf_op_bits', step) = FlowOpOf(call')
            /\ UserTag(ld_op_bits', hd_op_bits', step) = UserOpOf(call')]_vars

C10_Witness ==
    /\ Completed("decode_op")
    /\ call.a = Push
    /\ call.b = 1
    /\ UserOpAt(pre.step) = Push
    /\ FlowOpAt(pre.step) = Hacc
    /\ pre.step = PUSH_OP_ALIGNMENT

\* ------------------------------------------------------------------------
\* C3: a decode_op with a non-zero op_value completes exactly when the opcode
\* is Push and the step before the call is divisible by 8; with any other
\* opcode it is stopped at every step, and a Push with a non-zero op_value at
\* a step not divisible by 8 is stopped for its alignment.
\* ------------------------------------------------------------------------
C3_PushAlignment ==
    (call.op = "decode_op" /\ call.b # 0) =>
        /\ err = "none" <=> (call.a = Push /\ pre.step % 8 = 0)
        /\ call.a # Push => err = "op_value"
        /\ (call.a = Push /\ pre.step % 8 # 0) => err = "push_alignment"
        /\ err = "none" => UserOpAt(pre.step) = Push

C3_Witness ==
    /\ call.op = "decode_op"
    /\ call.a = Push
    /\ call.b = 1
    /\ pre.step = 9
    /\ err = "push_alignment"
    /\ UserOpAt(8) = Push

\* ------------------------------------------------------------------------
\* C6: the context stack never holds more than 16 registers and the loop
\* stack never more than 8; while no operation was stopped ctx_depth <= 16
\* and loop_depth <= 8; a start_block or start_loop at context depth 16 and a
\* start_loop at loop depth 8 are stopped with the overflow error and
\* allocate no register.
\* ------------------------------------------------------------------------
C6_StackBounds ==
    /\ max_ctx_stack_depth(Decoder) <= MAX_CONTEXT_DEPTH
    /\ max_loop_stack_depth(Decoder) <= MAX_LOOP_DEPTH
    /\ err = "none" =>
          /\ ctx_depth <= MAX_CONTEXT_DEPTH
          /\ loop_depth <= MAX_LOOP_DEPTH
    /\ (/\ call.op \in {"start_block", "start_loop"}
        /\ pre.step % 16 = 15
        /\ pre.ctx_depth = MAX_CONTEXT_DEPTH) => err = "ctx_overflow"
    /\ (/\ call.op = "start_loop"
        /\ pre.step % 16 = 15
        /\ pre.ctx_depth < MAX_CONTEXT_DEPTH
        /\ pre.loop_depth = MAX_LOOP_DEPTH) => err = "loop_overflow"

C6_Witness ==
    /\ call.op = "start_block"
    /\ err = "ctx_overflow"
    /\ pre.ctx_depth = MAX_CONTEXT_DEPTH
    /\ max_ctx_stack_depth(Decoder) = MAX_CONTEXT_DEPTH
    /\ max_loop_stack_depth(Decoder) = MAX_LOOP_DEPTH

Registers(acc, ctx, lp) == acc \o ctx \o lp

C11_FinalizePostcondition ==
    [][call'.op = "finalize_trace" =>
        LET s == step
            bits == OpBits(cf_op_bits, ld_op_bits, hd_op_bits)
            bits2 == OpBits(cf_op_bits', ld_op_bits', hd_op_bits')
            regs == Registers(op_acc, ctx_stack, loop_stack)
            regs2 == Registers(op_acc', ctx_stack', loop_stack')
        IN  /\ Len(bits2) = Len(bits)
            /\ Len(regs2) = Len(regs)
            /\ \A i \in 1 .. Len(bits) :
                  /\ Len(bits2[i]) = Len(bits[i])
                  /\ \A r \in 0 .. (Len(bits[i]) - 1) :
                        Row(bits2[i], r) = IF r >= s THEN 1 ELSE Row(bits[i], r)
            /\ \A i \in 1 .. Len(regs) :
                  /\ Len(regs2[i]) = Len(regs[i])
                  /\ \A r \in 0 .. (Len(regs[i]) - 1) :
                        Row(regs2[i], r) =
                            IF r > s THEN Row(regs[i], s) ELSE Row(regs[i], r)]_vars

C11_Witness ==
    /\ Completed("finalize_trace")
    /\ step = 32
    /\ trace_length(Decoder) = 64
    /\ loop_stack # <<>>
    /\ Row(op_acc[1], 63) = sponge[1]
    /\ sponge[1] # ZERO
    /\ FlowOpAt(15) = Loop
    /\ FlowOpAt(31) = Hacc
    /\ FlowOpAt(32) = Void

\* ------------------------------------------------------------------------
\* C12: after finalize_trace every register (op_acc, the op bits, every
\* context-stack and loop-stack register) has trace_length rows, trace_length
\* is a power of two and at least the number of steps plus one, and every
\* op-bit value is 0 or 1.
\* ------------------------------------------------------------------------
RECURSIVE IsPowerOfTwo(_)
IsPowerOfTwo(n) ==
    IF n <= 1 THEN n = 1 ELSE n % 2 = 0 /\ IsPowerOfTwo(n \div 2)

C12_TraceWellFormed ==
    Completed("finalize_trace") =>
        LET bits == OpBits(cf_op_bits, ld_op_bits, hd_op_bits)
            regs == Registers(op_acc, ctx_stack, loop_stack)
        IN  /\ \A i \in 1 .. Len(bits) : Len(bits[i]) = trace_length(Decoder)
            /\ \A i \in 1 .. Len(regs) : Len(regs[i]) = trace_length(Decoder)
            /\ IsPowerOfTwo(trace_length(Decoder))
            /\ trace_length(Decoder) >= step + 1
            /\ \A i \in 1 .. Len(bits) :
                  \A r \in 0 .. (Len(bits[i]) - 1) : Row(bits[i], r) \in {0, 1}

\* ------------------------------------------------------------------------
\* C13: the program Group([Span([Noop x 15])]) is decoded on a new decoder as
\* one Begin, 15 Hacc steps and one Tend, every one of the 17 operations
\* completing, and after finalize_trace the trace has 32 steps,
\* max_ctx_stack_depth is 1 and max_loop_stack_depth is 0.
\* ------------------------------------------------------------------------
C13_EmptyProgram ==
    walk.program = EmptyProgram =>
        /\ Len(WalkList(EmptyProgram, 1)) = 17
        /\ err = "none"
        /\ Completed("finalize_trace") =>
              /\ trace_length(Decoder) = 32
              /\ max_ctx_stack_depth(Decoder) = 1
              /\ max_loop_stack_depth(Decoder) = 0

\* ------------------------------------------------------------------------
\* C14: once finalize_trace has been called, no later call of start_block,
\* end_block, start_loop, wrap_loop, break_loop or decode_op that returns
\* changes the step counter, the sponge, the stack depths or any trace row.
\* ------------------------------------------------------------------------
C14_FrozenAfterFinalize ==
    [][(used.fin > 0 /\ call'.op \in StepOps /\ err' = "none") =>
            UNCHANGED <<step, sponge, ctx_depth, loop_depth, op_acc,
                        cf_op_bits, ld_op_bits, hd_op_bits, ctx_stack,
                        loop_stack>>]_vars

\* ------------------------------------------------------------------------
\* Reading the assembled program: the opcode at program index i (from 0)
\* ------------------------------------------------------------------------
OpcodeAt(i) == asm_program[i + 1]

Indexes == 0 .. (Len(asm_program) - 1)

HintsOf(kind) == {i \in DOMAIN asm_hints : asm_hints[i].hint = kind}

Accepted == parsed.result \in {"none", "Ok"}

\* ------------------------------------------------------------------------
\* C15: after any sequence of successfully parsed mnemonics, starting from
\* the empty program, every Push opcode sits at a program index divisible by
\* 8, the hint map holds a PushValue hint keyed at that index, and it holds no
\* PushValue hint at an index that does not hold a Push.
\* ------------------------------------------------------------------------
C15_PushInvariant ==
    Accepted =>
        /\ \A i \in Indexes :
              OpcodeAt(i) = "Push" =>
                  i % 8 = 0 /\ i \in HintsOf("PushValue")
        /\ \A i \in HintsOf("PushValue") : i \in Indexes /\ OpcodeAt(i) = "Push"

C15_Witness ==
    /\ parsed.result = "Ok"
    /\ parsed.phase = 2
    /\ Cardinality(HintsOf("PushValue")) = 2
    /\ Cardinality(HintsOf("EqStart")) = 1
    /\ \E i \in HintsOf("PushValue") : i > 0 /\ OpcodeAt(i - 1) = "Noop"
    /\ \E i \in HintsOf("PushValue") : i > 0 /\ OpcodeAt(i - 1) # "Noop"

\* ------------------------------------------------------------------------
\* C16: after any sequence of successfully parsed mnemonics, every maximal
\* run of RescR opcodes (from hash.n and from each half of an mpath.n
\* sub-cycle) begins at a program index divisible by 16 and is exactly ten
\* opcodes long, whatever the program length was before the mnemonic.
\* ------------------------------------------------------------------------
RunStarts ==
    {i \in Indexes :
        OpcodeAt(i) = "RescR" /\ (i = 0 \/ OpcodeAt(i - 1) # "RescR")}

C16_HashAlignment ==
    Accepted =>
        \A i \in RunStarts :
            /\ i % 16 = 0
            /\ i + 9 \in Indexes
            /\ \A j \in i .. (i + 9) : OpcodeAt(j) = "RescR"
            /\ (i + 10 \in Indexes) => OpcodeAt(i + 10) # "RescR"

C16_Witness ==
    /\ parsed.result = "Ok"
    /\ parsed.phase = 2
    /\ parsed.op.name = "hash"
    /\ parsed.at % 16 = 12
    /\ parsed.before[1] = "Noop"
    /\ Cardinality(RunStarts) = 5

\* ------------------------------------------------------------------------
\* The gt.64 scenario: the single token gt.64 parsed into the empty program.
\* ------------------------------------------------------------------------
Gt64 ==
    /\ parsed.op = Token("gt", <<(<<"6", "4">>)>>)
    /\ parsed.step = 1
    /\ parsed.before = <<>>

CountOf(opcode) == Cardinality({i \in Indexes : OpcodeAt(i) = opcode})

\* the only Push, and the first Cmp
PushIndex == CHOOSE i \in Indexes : OpcodeAt(i) = "Push"
FirstCmp == CHOOSE i \in Indexes : OpcodeAt(i) = "Cmp" /\ OpcodeAt(i - 1) # "Cmp"

\* C17 as stated: gt.64 yields a program of 83 opcodes, 4 of preamble, 5 Noop
\* pads and the Push, 64 Cmp and 9 of post-amble, with PushValue(2^63) keyed
\* at the index of the Push and CmpStart(64) at the index of the first Cmp.
C17_Original ==
    Gt64 =>
        /\ parsed.result = "Ok"
        /\ Len(asm_program) = 83
        /\ CountOf("Noop") = 5
        /\ CountOf("Cmp") = 64
        /\ asm_hints = (PushIndex :> PushValue({63})) @@ (FirstCmp :> CmpStart(64))

\* C17 as the code has it: gt.64 yields a program of 82 opcodes, the 4 of the
\* preamble, 4 Noop pads and the Push at index 8, 64 Cmp and the 9 of the
\* post-amble, with PushValue(2^63) keyed at the index of the Push and
\* CmpStart(64) keyed at the index of the first Cmp, and no other hint.
C17_Gt64Scenario ==
    Gt64 =>
        /\ parsed.result = "Ok"
        /\ Len(asm_program) = 82
        /\ asm_program = <<"Pad2", "Pad2", "Pad2", "Dup">>
                         \o [i \in 1 .. 4 |-> "Noop"] \o <<"Push">>
                         \o [i \in 1 .. 64 |-> "Cmp"]
                         \o <<"Drop4", "Pad2", "Swap4", "Roll4", "AssertEq",
                              "AssertEq", "Roll4", "Dup", "Drop4">>
        /\ PushIndex = 8
        /\ FirstCmp = 9
        /\ asm_hints = (PushIndex :> PushValue({63})) @@ (FirstCmp :> CmpStart(64))

C17_Witness ==
    /\ Gt64
    /\ parsed.result = "Ok"
    /\ CountOf("Cmp") = 64
    /\ OpcodeAt(8) = "Push"

\* ------------------------------------------------------------------------
\* The expansion of a comparison macro: the program before it, the prelude,
\* the smallest number of Noops that brings the length to a multiple of 8,
\* Push, count copies of the opcode, and the tail.
\* ------------------------------------------------------------------------
Pads(length) == CHOOSE p \in 0 .. 7 : (length + p) % 8 = 0

PushSlot(prelude) == Len(parsed.before) + Len(prelude) + Pads(Len(parsed.before) + Len(prelude))

Expansion(prelude, opcode, count, tail) ==
    parsed.before \o prelude
    \o [i \in 1 .. Pads(Len(parsed.before) + Len(prelude)) |-> "Noop"]
    \o <<"Push">> \o [i \in 1 .. count |-> opcode] \o tail

Widths129 == 0 .. 129

\* C18: for n in 4..=128 and any starting program, gt.n and lt.n append
\* [Pad2, Pad2, Pad2, Dup], an aligned push of 2^(n-1), record CmpStart(n) at
\* the index of the first Cmp, append n copies of Cmp and then, for gt.n,
\* [Drop4, Pad2, Swap4, Roll4, AssertEq, AssertEq, Roll4, Dup, Drop4], for
\* lt.n the same without its last Roll4; these post-ambles are gt_finale and
\* lt_finale of the comparison tests.  For n outside 4..=128 the result is
\* InvalidParamReason.
C18_CmpExpansion ==
    \A name \in {"gt", "lt"}, n \in Widths129 :
        parsed.op = Token(name, <<decimal(n)>>) =>
            LET prelude == <<"Pad2", "Pad2", "Pad2", "Dup">>
                tail == IF name = "gt"
                        THEN <<"Drop4", "Pad2", "Swap4", "Roll4", "AssertEq",
                               "AssertEq", "Roll4", "Dup", "Drop4">>
                        ELSE <<"Drop4", "Pad2", "Swap4", "Roll4", "AssertEq",
                               "AssertEq", "Dup", "Drop4">>
                slot == PushSlot(prelude)
            IN  IF n \in 4 .. 128
                THEN /\ parsed.result = "Ok"
                     /\ asm_program = Expansion(prelude, "Cmp", n, tail)
                     /\ OpcodeAt(slot) = "Push" /\ OpcodeAt(slot + 1) = "Cmp"
                     /\ asm_hints = (slot :> PushValue({n - 1}))
                                    @@ ((slot + 1) :> CmpStart(n)) @@ parsed.hints
                     /\ tail = (IF name = "gt" THEN gt_finale ELSE lt_finale)
                ELSE parsed.result = "InvalidParamReason"

C18_Witness ==
    /\ parsed.op = Token("lt", <<decimal(5)>>)
    /\ parsed.result = "Ok"
    /\ parsed.at % 8 = 7
    /\ parsed.hints # <<>>
    /\ Len(asm_program) = parsed.at + 4 + 5 + 1 + 5 + 8

\* ------------------------------------------------------------------------
\* C19: for n in 4..=128 and any starting program, rc.n and isodd.n append
\* [Pad2], an aligned push of 2^(n-1), record RcStart(n) at the index of the
\* first BinAcc and append n copies of BinAcc; rc.n then appends [Drop, Drop],
\* records EqStart at the index of the following Read and appends [Read, Eq];
\* isodd.n appends [Swap2, AssertEq, Drop] and records no further hint.
\* ------------------------------------------------------------------------
C19_BinAccExpansion ==
    \A name \in {"rc", "isodd"}, n \in 4 .. 128 :
        parsed.op = Token(name, <<decimal(n)>>) =>
            LET slot == PushSlot(<<"Pad2">>)
                started == (slot :> PushValue({n - 1}))
                           @@ ((slot + 1) :> RcStart(n)) @@ parsed.hints
            IN  /\ parsed.result = "Ok"
                /\ OpcodeAt(slot) = "Push" /\ OpcodeAt(slot + 1) = "BinAcc"
                /\ name = "rc" =>
                      /\ asm_program = Expansion(<<"Pad2">>, "BinAcc", n,
                                            <<"Drop", "Drop", "Read", "Eq">>)
                      /\ OpcodeAt(slot + n + 3) = "Read"
                      /\ asm_hints = ((slot + n + 3) :> EqStart) @@ started
                /\ name = "isodd" =>
                      /\ asm_program = Expansion(<<"Pad2">>, "BinAcc", n,
                                            <<"Swap2", "AssertEq", "Drop">>)
                      /\ asm_hints = started

C19_Witness ==
    /\ parsed.op = Token("rc", <<decimal(4)>>)
    /\ parsed.result = "Ok"
    /\ parsed.at % 8 = 2
    /\ HintsOf("EqStart") = {0, Len(asm_program) - 2}
    /\ Cardinality(DOMAIN asm_hints) = 4

\* ------------------------------------------------------------------------
\* C20: push.V appends the smallest number p of Noops, 0 <= p <= 7, that
\* makes the program length divisible by 8 (none when it already is), records
\* PushValue(V) keyed at that post-padding length and appends one Push at
\* that index; noop noop noop push.42 yields eight Noops followed by Push,
\* with hints {8: PushValue(42)}.
\* ------------------------------------------------------------------------
\* 42 = 2^5 + 2^3 + 2^1
Bits42 == {1, 3, 5}

PushTexts ==
    {[text |-> <<"4", "2">>, value |-> Bits42],
     [text |-> <<"0", "x", "2", "a">>, value |-> Bits42],
     [text |-> <<"0">>, value |-> {}]}

C20_PushRule ==
    /\ \A v \in PushTexts :
          parsed.op = Token("push", <<v.text>>) =>
              LET slot == PushSlot(<<>>)
              IN  /\ parsed.result = "Ok"
                  /\ slot % 8 = 0
                  /\ slot - Len(parsed.before) \in 0 .. 7
                  /\ Len(parsed.before) % 8 = 0 => slot = Len(parsed.before)
                  /\ asm_program = parsed.before
                        \o [i \in 1 .. (slot - Len(parsed.before)) |-> "Noop"]
                        \o <<"Push">>
                  /\ asm_hints = (slot :> PushValue(v.value)) @@ parsed.hints
    /\ (parsed.op = Token("push", <<(<<"4", "2">>)>>)
            /\ parsed.before = <<"Noop", "Noop", "Noop">>) =>
          /\ asm_program = <<"Noop", "Noop", "Noop", "Noop", "Noop", "Noop",
                             "Noop", "Noop", "Push">>
          /\ asm_hints = (8 :> PushValue(Bits42))

C20_Witness ==
    /\ parsed.op = Token("push", <<(<<"4", "2">>)>>)
    /\ parsed.before = <<"Noop", "Noop", "Noop">>
    /\ parsed.result = "Ok"
    /\ Len(asm_program) = 9

\* ------------------------------------------------------------------------
\* C21: push with no parameter returns MissingParam; any mnemonic with more
\* than one parameter returns ExtraParam; a parameter that is no number
\* (decimal or 0x-hexadecimal for push, unsigned decimal for the mnemonics
\* that take an integer) returns InvalidParam; a push value >= MODULUS, an
\* integer parameter equal to 0 and an integer parameter outside the allowed
\* set of its mnemonic each return InvalidParamReason.
\* ------------------------------------------------------------------------
Allowed ==
    [dup |-> 1 .. 4, pad |-> 1 .. 8, pick |-> 1 .. 3, drop |-> 1 .. 8,
     swap |-> {1, 2, 4}, roll |-> {4, 8}, choose |-> {1, 2}, hash |-> 1 .. 4,
     gt |-> 4 .. 128, lt |-> 4 .. 128, rc |-> 4 .. 128, isodd |-> 4 .. 128,
     mpath |-> 2 .. 256]

Numbers == 0 .. 257

DecimalTexts == Bind([n \in Numbers |-> decimal(n)], LAMBDA texts : texts)

TooLarge == {hex_text(value) : value \in {MODULUS, MODULUS \cup {1}, 0 .. 127}}

C21_ErrorClassification ==
    /\ parsed.op = Token("push", <<>>) => parsed.result = "MissingParam"
    /\ Len(parsed.op.params) > 1 => parsed.result = "ExtraParam"
    /\ (parsed.op.name \in WithParam /\ Len(parsed.op.params) = 1
            /\ parsed.op.params[1] \in BadNumbers) =>
          parsed.result = "InvalidParam"
    /\ (parsed.op.name = "push" /\ Len(parsed.op.params) = 1) =>
          /\ parsed.op.params[1] \in BadValues =>
                parsed.result = "InvalidParam"
          /\ parsed.op.params[1] \in TooLarge =>
                parsed.result = "InvalidParamReason"
    /\ (parsed.op.name \in WithParam /\ Len(parsed.op.params) = 1) =>
          \A n \in Numbers :
              parsed.op.params[1] = DecimalTexts[n] =>
                  IF n \in Allowed[parsed.op.name] THEN parsed.result = "Ok"
                  ELSE parsed.result = "InvalidParamReason"

C21_Witness ==
    /\ parsed.op = Token("push", <<hex_text(MODULUS)>>)
    /\ parsed.result = "InvalidParamReason"
    /\ parsed.phase = 2
    /\ parsed.at > 0

\* ------------------------------------------------------------------------
\* C22: a parser that returns an error has appended no opcode and inserted
\* no hint: the program and the hint map are exactly as they were before
\* the failing token.
\* ------------------------------------------------------------------------
Failed == parsed.result \notin {"none", "Ok"}

C22_NoOutputOnError ==
    Failed => /\ asm_program = parsed.before
              /\ asm_hints = parsed.hints

C22_Witness ==
    /\ Failed
    /\ parsed.phase = 2
    /\ parsed.op = Token("gt", <<decimal(3)>>)
    /\ parsed.result = "InvalidParamReason"
    /\ Len(asm_program) > 0
    /\ DOMAIN asm_hints # {}
    /\ asm_program = parsed.before
    /\ asm_hints = parsed.hints

\* ------------------------------------------------------------------------
\* C26: every hint is keyed at the index of the opcode it guides: EqStart at
\* the Read of a Read, Eq pair, PushValue at a Push, CmpStart(n) at the
\* first of n Cmp opcodes, RcStart(n) at the first of n BinAcc opcodes; no
\* insertion overwrites a hint that was there before; assembling eq alone
\* gives the program Read, Eq with the hints {0: EqStart}.
\* ------------------------------------------------------------------------
Is(i, opcode) == i \in Indexes /\ OpcodeAt(i) = opcode

\* the n opcodes from index i on are the whole run of the given opcode
RunOf(i, n, opcode) ==
    /\ \A k \in 0 .. (n - 1) : Is(i + k, opcode)
    /\ ~Is(i - 1, opcode)
    /\ ~Is(i + n, opcode)

Guides(i, hint) ==
    CASE hint.hint = "EqStart" -> Is(i, "Read") /\ Is(i + 1, "Eq")
      [] hint.hint = "PushValue" -> Is(i, "Push")
      [] hint.hint = "CmpStart" -> RunOf(i, hint.n, "Cmp")
      [] hint.hint = "RcStart" -> RunOf(i, hint.n, "BinAcc")

C26_HintsAnnotateOpcode ==
    /\ \A i \in DOMAIN asm_hints : Guides(i, asm_hints[i])
    /\ \A i \in DOMAIN parsed.hints :
          i \in DOMAIN asm_hints /\ asm_hints[i] = parsed.hints[i]
    /\ \A i \in Indexes :
          /\ Is(i, "Push") => i \in HintsOf("PushValue")
          /\ (Is(i, "Cmp") /\ ~Is(i - 1, "Cmp")) => i \in HintsOf("CmpStart")
          /\ (Is(i, "BinAcc") /\ ~Is(i - 1, "BinAcc")) => i \in HintsOf("RcStart")
          /\ Is(i, "Eq") => (i - 1) \in HintsOf("EqStart")
    /\ (parsed.op = Token("eq", <<>>) /\ parsed.at = 0) =>
          /\ asm_program = <<"Read", "Eq">>
          /\ asm_hints = (0 :> EqStart)

C26_Witness ==
    /\ parsed.phase = 2
    /\ parsed.op = Token("rc", <<decimal(4)>>)
    /\ parsed.result = "Ok"
    /\ HintsOf("EqStart") # {}
    /\ HintsOf("RcStart") # {}
    /\ Cardinality(HintsOf("PushValue")) = 2
    /\ HintsOf("CmpStart") # {}
    /\ DOMAIN parsed.hints # {}

\* ------------------------------------------------------------------------
\* Reading a construction: the lists the constructor validated, each with the
\* prefix required of its first Span
\* ------------------------------------------------------------------------
Validated ==
    CASE built.call = "Group::new" -> {<<built.a, <<>>>>}
      [] built.call = "Switch::new" ->
            {<<built.a, <<AssertOp>>>>, <<built.b, <<Not, AssertOp>>>>}
      [] built.call = "Loop::new" -> {<<built.a, <<AssertOp>>>>}
      [] OTHER -> {}

AdjacentSpans(blocks) ==
    \E i \in 1 .. (Len(blocks) - 1) :
        blocks[i].kind = "span" /\ blocks[i + 1].kind = "span"

\* ------------------------------------------------------------------------
\* C23: constructing a Group, a Switch branch or a Loop body from a list
\* that contains two consecutive Spans at any position fails, also when a
\* block that is no Span comes before the two Spans.
\* ------------------------------------------------------------------------
C23_AdjacentSpansRejected ==
    (\E l \in Validated : AdjacentSpans(l[1])) => ~built.block.ok

\* two Spans right after the first block are refused
C23_Witness ==
    /\ built.call = "Group::new"
    /\ built.a = <<SpanNoops, SpanNoops, InnerGroup>>
    /\ ~built.block.ok

\* ------------------------------------------------------------------------
\* C24: Group::new, Switch::new and Loop::new abort when a list is empty,
\* when its first block is no Span, or when its first Span lacks the prefix
\* required of it (Switch true branch: Assert; false branch: Not, Assert;
\* Loop body: Assert; Group: none).  A list that passes these and has no two
\* adjacent Spans is accepted.
\* ------------------------------------------------------------------------
HasPrefix(block, prefix) ==
    /\ Len(block.instructions) >= Len(prefix)
    /\ SubSeq(block.instructions, 1, Len(prefix)) = prefix

Refused(l) ==
    \/ Len(l[1]) = 0
    \/ l[1][1].kind # "span"
    \/ ~HasPrefix(l[1][1], l[2])

C24_BlockListValidation ==
    built.call # "none" =>
        /\ (\E l \in Validated : Refused(l)) => ~built.block.ok
        /\ (\A l \in Validated : ~Refused(l) /\ ~AdjacentSpans(l[1])) =>
              built.block.ok

C24_Witness ==
    /\ built.call = "Switch::new"
    /\ built.a = <<SpanAssert, InnerGroup, SpanNoops, InnerGroup>>
    /\ built.b = <<SpanNotAssert, InnerGroup>>
    /\ built.block.ok

\* ------------------------------------------------------------------------
\* C25: Group.hash(S) = hash_acc(S[0], hash_seq(children), 0),
\* Switch.hash(S) = hash_acc(S[0], hash_seq(t), hash_seq(f)) and
\* Loop.hash(S) = hash_acc(S[0], hash_seq(body), hash_seq(skip)), where skip
\* is always the Span Not, Assert and 13 Noops; each depends on S only
\* through S[0].
\* ------------------------------------------------------------------------
SkipSpan ==
    Span_from_instructions(
        <<Not, AssertOp, Noop, Noop, Noop, Noop, Noop, Noop, Noop, Noop,
          Noop, Noop, Noop, Noop, Noop>>)

SkipHash == hash_seq(<<SkipSpan>>)

\* the right-hand sides mention the state S only as S[0]
C25_HashComposition ==
    built.hashed =>
        /\ built.call = "Group::new" =>
              built.hash = hash_acc(built.state[1], hash_seq(built.a), ZERO)
        /\ built.call = "Switch::new" =>
              built.hash = hash_acc(built.state[1], hash_seq(built.a),
                                    hash_seq(built.b))
        /\ built.call = "Loop::new" =>
              /\ built.block.skip = <<SkipSpan>>
              /\ built.hash = hash_acc(built.state[1], hash_seq(built.a),
                                       SkipHash)

C25_Witness ==
    /\ built.hashed
    /\ built.call = "Loop::new"
    /\ built.a = <<SpanAssert, InnerGroup, SpanNoops>>
    /\ built.state = <<3, 1, 2, 4>>
    /\ built.hash[2] # built.hash[3]

\* ------------------------------------------------------------------------
\* C27: the context stack is last in, first out: the value a completed
\* end_block pops and installs as sponge[0] is the sponge[0] of immediately
\* before the matching start_block or start_loop, the last one that no
\* end_block has closed yet.
\* ------------------------------------------------------------------------
C27_ContextStackLifo ==
    (Completed("end_block") /\ pre.frame # Modulus) =>
        /\ sponge[1] = pre.frame
        /\ Row(op_acc[1], step) = pre.frame
        /\ Row(ctx_stack[1], pre.step) = pre.frame

\* the inner of two open blocks is closed, and the two entries differ
C27_Witness ==
    /\ Completed("end_block")
    /\ pre.frame # Modulus
    /\ frames # <<>>
    /\ Top(frames) # pre.frame
    /\ sponge[1] = pre.frame
    /\ sponge[1] # 0

\* ------------------------------------------------------------------------
\* Reading the two stacks across the last call: the row of the call is
\* pre.step, the row it wrote is step
\* ------------------------------------------------------------------------
SameRows(stack) ==
    \A i \in 1 .. Len(stack) : Row(stack[i], step) = Row(stack[i], pre.step)

\* every register but the last holds what the next one held
ShiftedUp(stack) ==
    \A i \in 1 .. (Len(stack) - 1) :
        Row(stack[i], step) = Row(stack[i + 1], pre.step)

\* every register but the first holds what the one before held
ShiftedDown(stack) ==
    \A i \in 2 .. Len(stack) :
        Row(stack[i], step) = Row(stack[i - 1], pre.step)

\* ------------------------------------------------------------------------
\* C28: a completed wrap_loop leaves the context stack, the contents of the
\* loop stack and the loop depth unchanged, records Wrap and resets the
\* sponge to zero.  A completed break_loop leaves the context stack
\* unchanged, removes the top loop image (the depth goes down by one, the
\* remaining images move up), records Break, and leaves the four sponge
\* elements unchanged while writing them to op_acc at the new step.
\* ------------------------------------------------------------------------
C28_LoopOpsFrame ==
    /\ Completed("wrap_loop") =>
          /\ SameRows(ctx_stack) /\ ctx_depth = pre.ctx_depth
          /\ SameRows(loop_stack) /\ loop_depth = pre.loop_depth
          /\ FlowOpAt(pre.step) = Wrap
          /\ sponge = ZeroState
    /\ Completed("break_loop") =>
          /\ SameRows(ctx_stack) /\ ctx_depth = pre.ctx_depth
          /\ ShiftedUp(loop_stack) /\ loop_depth = pre.loop_depth - 1
          /\ FlowOpAt(pre.step) = Break
          /\ sponge = pre.sponge
          /\ \A i \in 1 .. SPONGE_WIDTH : Row(op_acc[i], step) = pre.sponge[i]

\* the inner of two loops is broken; the image that moves up differs from it
C28_Witness ==
    /\ Completed("break_loop")
    /\ loop_depth = 1
    /\ pre.image # Row(loop_stack[1], step)
    /\ Row(loop_stack[1], step) = Top(images)
    /\ sponge[1] # 0
    /\ ctx_depth = 3

\* ------------------------------------------------------------------------
\* C29: a completed start_block or start_loop pushes the sponge[0] of before
\* the call on the context stack (the older entries move one place deeper,
\* the depth goes up by one) and resets the sponge to zero.  start_block
\* records Begin and leaves the loop stack and the loop depth unchanged;
\* start_loop records Loop and pushes loop_image on the loop stack (the older
\* images move one place deeper, the depth goes up by one).
\* ------------------------------------------------------------------------
Pushed(stack, value) ==
    /\ Len(stack) > 0
    /\ Row(stack[1], step) = value
    /\ ShiftedDown(stack)

C29_StartOpsEffect ==
    /\ Completed("start_block") =>
          /\ Pushed(ctx_stack, pre.sponge[1])
          /\ ctx_depth = pre.ctx_depth + 1
          /\ sponge = ZeroState
          /\ FlowOpAt(pre.step) = Begin
          /\ SameRows(loop_stack) /\ loop_depth = pre.loop_depth
    /\ Completed("start_loop") =>
          /\ Pushed(ctx_stack, pre.sponge[1])
          /\ ctx_depth = pre.ctx_depth + 1
          /\ sponge = ZeroState
          /\ FlowOpAt(pre.step) = Loop
          /\ Pushed(loop_stack, call.a)
          /\ loop_depth = pre.loop_depth + 1

\* a second loop is started inside the first, with another image
C29_Witness ==
    /\ Completed("start_loop")
    /\ loop_depth = 2
    /\ ctx_depth = 3
    /\ Row(loop_stack[1], step) # Row(loop_stack[2], step)
    /\ Row(ctx_stack[1], step) # Row(ctx_stack[2], step)
    /\ pre.sponge[1] # 0

\* ------------------------------------------------------------------------
\* C30: a completed decode_op leaves the contents of the context stack and of
\* the loop stack and both depths unchanged (the value at the new step is the
\* value at the previous step), records Hacc with the given user operation,
\* and changes the sponge only through one HACC round: the round constants
\* are those of index (step before the call) mod 16, and op_code is added to
\* sponge[0] and op_value to sponge[1] between the two half-rounds.
\* ------------------------------------------------------------------------
FirstHalf(state, idx) == apply_mds(apply_sbox(add_constants(state, idx, 0)))

SecondHalf(state, idx) ==
    apply_mds(apply_inv_sbox(add_constants(state, idx, SPONGE_WIDTH)))

Injected(state, op_code, op_value) ==
    <<add(state[1], op_code % Modulus), add(state[2], op_value % Modulus),
      state[3], state[4]>>

C30_DecodeOpFrame ==
    Completed("decode_op") =>
        /\ SameRows(ctx_stack) /\ ctx_depth = pre.ctx_depth
        /\ SameRows(loop_stack) /\ loop_depth = pre.loop_depth
        /\ FlowOpAt(pre.step) = Hacc
        /\ UserOpAt(pre.step) = call.a
        /\ sponge = SecondHalf(Injected(FirstHalf(pre.sponge, pre.step % 16),
                                        call.a, call.b),
                               pre.step % 16)

\* a Noop decoded inside a loop inside a block, from a sponge that is not zero
C30_Witness ==
    /\ Completed("decode_op")
    /\ ctx_depth = 3
    /\ loop_depth = 1
    /\ Row(ctx_stack[1], step) # 0
    /\ Row(loop_stack[1], step) # 0
    /\ pre.sponge # ZeroState
    /\ sponge # pre.sponge
    /\ pre.step % 16 = 3

\* ------------------------------------------------------------------------
\* C31: for a decoder created with init_trace_length >= 1, whenever advancing
\* the counter makes step >= trace_length every register is doubled in length
\* and padded with zeros; so after every completed operation step is below
\* trace_length, trace_length is init_trace_length times a power of two (it
\* starts as init_trace_length and only ever doubles), and the rows the
\* operations read and write, step - 1 and step, are inside the registers.
\* ------------------------------------------------------------------------
Traces == OpBits(cf_op_bits, ld_op_bits, hd_op_bits)
              \o Registers(op_acc, ctx_stack, loop_stack)

\* every register has trace_length rows and the counter is inside them
Sized ==
    /\ \A i \in 1 .. Len(Traces) : Len(Traces[i]) = trace_length(Decoder)
    /\ step < trace_length(Decoder)

\* the rows no operation has reached yet hold zero
ZeroAbove ==
    \A i \in 1 .. Len(Traces) :
        \A r \in (step + 1) .. (Len(Traces[i]) - 1) : Row(Traces[i], r) = ZERO

Grows ==
    err' = "none" =>
        IF step' >= Len(op_acc[1]) THEN Len(op_acc'[1]) = 2 * Len(op_acc[1])
        ELSE Len(op_acc'[1]) = Len(op_acc[1])

C31_TraceGrowth ==
    /\ Len(op_acc[1]) \in LenInitLengths
    /\ [](err = "none" => (Sized /\ (used.fin = 0 => ZeroAbove)))
    /\ [][Grows]_vars

\* a decoder created with 3 rows has doubled four times
C31_Witness ==
    /\ err = "none"
    /\ used.fin = 0
    /\ trace_length(Decoder) = 48
    /\ step = 24
    /\ Len(ctx_stack) = 2
    /\ Sized

\* ------------------------------------------------------------------------
\* C32: every trace row written by start_block, end_block, start_loop,
\* wrap_loop or break_loop, the rows whose flow operation is not Hacc, records
\* the user operation Noop; a user operation other than Noop appears only in
\* rows whose flow operation is Hacc.
\* ------------------------------------------------------------------------
ControlOps ==
    {"start_block", "end_block", "start_loop", "wrap_loop", "break_loop"}

C32_NoopOnlyControlRows ==
    /\ \A r \in 0 .. (trace_length(Decoder) - 1) :
          /\ FlowOpAt(r) # Hacc => UserOpAt(r) = Noop
          /\ UserOpAt(r) # Noop => FlowOpAt(r) = Hacc
    /\ (err = "none" /\ call.op \in ControlOps) =>
          /\ FlowOpAt(pre.step) # Hacc
          /\ UserOpAt(pre.step) = Noop

\* a trace with a Push row, a Loop row and a Wrap row
C32_Witness ==
    /\ Completed("wrap_loop")
    /\ FlowOpAt(pre.step) = Wrap
    /\ \E r \in 0 .. (step - 1) : FlowOpAt(r) = Hacc /\ UserOpAt(r) = Push
    /\ \E r \in 0 .. (step - 1) : FlowOpAt(r) = Loop /\ UserOpAt(r) = Noop

\* ------------------------------------------------------------------------
\* C33: pops only lower the logical depth.  The number of context registers
\* and of loop registers (max_ctx_stack_depth, max_loop_stack_depth) never
\* decreases over any sequence of operations, and in every state reached
\* without calling finalize_trace each context register at index >= the
\* logical context depth and each loop register at index >= the logical loop
\* depth holds zero in the current row.
\* ------------------------------------------------------------------------
\* the registers of a stack from index depth on (counted from 0) hold zero
ZeroFrom(stack, depth) ==
    \A i \in (depth + 1) .. Len(stack) : Row(stack[i], step) = ZERO

RegistersKept ==
    /\ max_ctx_stack_depth(Decoder') >= max_ctx_stack_depth(Decoder)
    /\ max_loop_stack_depth(Decoder') >= max_loop_stack_depth(Decoder)

C33_PopsLowerDepthOnly ==
    /\ []((err = "none" /\ used.fin = 0) =>
            (ZeroFrom(ctx_stack, ctx_depth) /\ ZeroFrom(loop_stack, loop_depth)))
    /\ [][RegistersKept]_vars

\* the only loop is broken: its register stays, the image it held is gone
C33_Witness ==
    /\ Completed("break_loop")
    /\ used.fin = 0
    /\ loop_depth = 0
    /\ max_loop_stack_depth(Decoder) = 1
    /\ Row(loop_stack[1], pre.step) # ZERO
    /\ Row(loop_stack[1], step) = ZERO
    /\ max_ctx_stack_depth(Decoder) > ctx_depth - 1

\* ------------------------------------------------------------------------
\* C34: alignment failures are atomic.  When start_block, end_block,
\* start_loop, wrap_loop, break_loop or decode_op is stopped by its alignment
\* precondition (step % 16, or step % 8 for a Push with a value) or by a
\* non-zero op_value on an opcode that is not Push, it is stopped before any
\* change: the step counter, the sponge, the stack depths and every trace
\* row are exactly as before the call.
\* ------------------------------------------------------------------------
PreconditionErrors == {"alignment", "push_alignment", "op_value"}

C34_AlignmentFailuresAtomic ==
    [][err' \in PreconditionErrors =>
            UNCHANGED <<step, sponge, ctx_depth, loop_depth, op_acc,
                        cf_op_bits, ld_op_bits, hd_op_bits, ctx_stack,
                        loop_stack>>]_vars

\* a Push with a value is refused at step 20, inside a block
C34_Witness ==
    /\ err = "push_alignment"
    /\ call.op = "decode_op"
    /\ step = 20
    /\ pre.step = 20
    /\ sponge = pre.sponge
    /\ sponge # ZeroState
    /\ ctx_depth = 2
    /\ Row(op_acc[1], 21) = ZERO

\* ------------------------------------------------------------------------
\* C35: a freshly created decoder has step 0, a zero sponge, logical context
\* depth 1 with one context register holding zero, and an empty loop stack.
\* As a consequence end_block completes as the very first operation and
\* installs the context value 0; the blocks and loops started and not ended
\* are never more than 15 (the context depth is 1 + starts - ends and at most
\* 16); and a start_block or start_loop called with 15 of them open, the
\* 16th, is stopped with the context stack overflow error.
\* ------------------------------------------------------------------------
RowsWith(tags) == {r \in 0 .. (step - 1) : FlowOpAt(r) \in tags}

Started == Cardinality(RowsWith({Begin, Loop}))

Ended == Cardinality(RowsWith({Tend, Fend}))

Fresh ==
    /\ step = 0
    /\ sponge = ZeroState
    /\ ctx_depth = 1
    /\ max_ctx_stack_depth(Decoder) = 1
    /\ \A r \in 0 .. (trace_length(Decoder) - 1) : Row(ctx_stack[1], r) = ZERO
    /\ loop_stack = <<>>
    /\ loop_depth = 0

FinalizeFrame ==
    /\ UNCHANGED <<step, sponge, ctx_depth, loop_depth>>
    /\ max_ctx_stack_depth(Decoder') = max_ctx_stack_depth(Decoder)
    /\ max_loop_stack_depth(Decoder') = max_loop_stack_depth(Decoder)
    /\ trace_length(Decoder') = trace_length(Decoder)
    /\ \A i \in 1 .. Len(Traces) : Len(Traces'[i]) = Len(Traces[i])

C36_FinalizeIdempotent ==
    [][(call'.op = "finalize_trace" /\ err' = "none") =>
            /\ FinalizeFrame
            /\ call.op = "finalize_trace" =>
                  UNCHANGED <<op_acc, cf_op_bits, ld_op_bits, hd_op_bits,
                              ctx_stack, loop_stack>>]_vars

\* finalize_trace was called twice inside a block, with a sponge that is not zero
C36_Witness ==
    /\ Completed("finalize_trace")
    /\ used.fin = 2
    /\ used.ctl = 1
    /\ used.user = step - 1
    /\ ctx_depth = 2
    /\ sponge # ZeroState
    /\ Row(cf_op_bits[1], step) = ONE
    /\ Row(op_acc[1], trace_length(Decoder) - 1) = sponge[1]

\* ------------------------------------------------------------------------
\* C37: ordering forced by alignment, among the six operations that write a
\* row.  Immediately after a completed start_block, start_loop, wrap_loop or
\* break_loop only end_block or decode_op can complete; immediately after a
\* completed end_block only decode_op can complete; and between two
\* consecutive completed operations among start_block, start_loop, wrap_loop
\* and break_loop the number of completed operations is congruent to 15
\* mod 16.
\* ------------------------------------------------------------------------
StartRows == RowsWith({Begin, Loop, Wrap, Break})

\* each completed operation wrote one row: the rows between two rows are the
\* operations between the two operations
Spacing ==
    \A r1 \in StartRows, r2 \in StartRows :
        (r1 < r2 /\ \A r \in (r1 + 1) .. (r2 - 1) : r \notin StartRows) =>
            (r2 - r1 - 1) % 16 = 15

After ==
    /\ (Completed("start_block") \/ Completed("start_loop")
            \/ Completed("wrap_loop") \/ Completed("break_loop")) =>
          /\ (call'.op \in StepOps /\ err' = "none") =>
                call'.op \in {"end_block", "decode_op"}
          /\ call'.op \in StartOps => err' = "alignment"
    /\ Completed("end_block") =>
          /\ (call'.op \in StepOps /\ err' = "none") => call'.op = "decode_op"
          /\ call'.op \in ControlOps => err' = "alignment"

WithHash(d, block_hash) == [d EXCEPT !.sponge[1] = block_hash]

\* two decoders alike in everything but the flow-op registers
SameButFlow(d1, d2) ==
    /\ d1.err = "none" /\ d2.err = "none"
    /\ d1.step = d2.step
    /\ d1.sponge = d2.sponge
    /\ d1.op_acc = d2.op_acc
    /\ d1.ld_op_bits = d2.ld_op_bits
    /\ d1.hd_op_bits = d2.hd_op_bits
    /\ d1.ctx_stack = d2.ctx_stack
    /\ d1.ctx_depth = d2.ctx_depth
    /\ d1.loop_stack = d2.loop_stack
    /\ d1.loop_depth = d2.loop_depth

Symmetric(d, c, t, f) ==
    LET closed_true  == end_block(WithHash(d, t), f, TRUE)
        closed_false == end_block(WithHash(d, f), t, FALSE)
    IN  /\ SameButFlow(closed_true, closed_false)
        /\ closed_true.sponge = <<c, t, f, 0>>
        /\ \A i \in 1 .. SPONGE_WIDTH :
              Row(closed_true.op_acc[i], d.step + 1) = closed_true.sponge[i]
        /\ FlowTag(closed_true.cf_op_bits, d.step) = Tend
        /\ FlowTag(closed_false.cf_op_bits, d.step) = Fend

\* every decoder on which end_block can run, with every pair of hashes
AllBranches ==
    (err = "none" /\ step % BASE_CYCLE_LENGTH = 0 /\ ctx_depth >= 1) =>
        \A t \in Field, f \in Field :
            Symmetric(Decoder, Row(ctx_stack[1], step), t, f)

\* every end_block that runs gives what the mirrored call would have given
Mirrored ==
    (call'.op = "end_block" /\ err' = "none") =>
        /\ SameButFlow(Decoder',
                       end_block(WithHash(Decoder, call'.a), sponge[1],
                                 call'.b # 1))
        /\ FlowTag(cf_op_bits', step) = IF call'.b = 1 THEN Tend ELSE Fend

C38_BranchSymmetry ==
    /\ []AllBranches
    /\ [][Mirrored]_vars

\* a false branch closed over a context, with block and sibling hash apart
C38_Witness ==
    /\ Completed("end_block")
    /\ call.b = 0
    /\ pre.frame # 0
    /\ pre.sponge[1] # call.a
    /\ sponge = <<pre.frame, call.a, pre.sponge[1], 0>>
    /\ FlowOpAt(pre.step) = Fend

\* ------------------------------------------------------------------------
\* C39: every mnemonic that takes an integer parameter (dup, pad, pick, drop,
\* swap, roll, choose, hash, mpath, gt, lt, rc, isodd) treats a missing
\* parameter as the value 1 and never returns MissingParam: dup, pad, pick,
\* drop, swap, choose and hash without a parameter expand as their .1 form,
\* while roll, mpath, gt, lt, rc and isodd without a parameter return
\* InvalidParamReason.
\* ------------------------------------------------------------------------
OneAllowed == {"dup", "pad", "pick", "drop", "swap", "choose", "hash"}
OneRefused == {"roll", "mpath", "gt", "lt", "rc", "isodd"}

\* what the same token with the parameter 1 written out gives from the same
\* program and hint map
AsOne ==
    parse_op(parsed.before, parsed.hints,
             Token(parsed.op.name, <<decimal(1)>>), parsed.step - 1)

C39_DefaultParameter ==
    (parsed.op.name \in WithParam /\ parsed.op.params = <<>>) =>
        /\ parsed.result # "MissingParam"
        /\ asm_program = AsOne.program
        /\ asm_hints = AsOne.hints
        /\ parsed.result = AsOne.result.kind
        /\ parsed.op.name \in OneAllowed =>
              /\ parsed.result = "Ok"
              /\ Len(asm_program) > Len(parsed.before)
        /\ parsed.op.name \in OneRefused =>
              /\ parsed.result = "InvalidParamReason"
              /\ asm_program = parsed.before

\* swap without a parameter, after some opcodes: the one opcode of swap.1
C39_Witness ==
    /\ parsed.op = Token("swap", <<>>)
    /\ parsed.result = "Ok"
    /\ parsed.at > 0
    /\ asm_program = parsed.before \o <<"Swap">>

====
